---- MODULE Spec2Model ----
(***************************************************************************)
(* Persistence layer of the household ledger: the storage facade of        *)
(* src/lib/storage.ts over its two backends (AsyncStorage on the web       *)
(* target, SQLite on the native target), the AsyncStorage -> SQLite        *)
(* migration, and importData of src/lib/data-export(.native).ts.           *)
(*                                                                         *)
(* Both targets are driven in lock step: every facade call is applied to   *)
(* the web backend and to the native backend with the same arguments, the  *)
(* same generated ids and the same clock reading.                          *)
(*                                                                         *)
(* Abstractions:                                                           *)
(*  - undefined, null and an absent JSON key are one value, None;          *)
(*  - a JSON text is its parsed value, or "not parsable";                  *)
(*  - dates are day numbers (the UI writes `${date}T00:00:00.000Z`, for    *)
(*    which text order and time order agree), timestamps are clock ticks;  *)
(*  - generateId (time + random suffix) never repeats an id: the k-th id   *)
(*    is prefix_k; ids of imported and of pre-upgrade records are written  *)
(*    by other runs and never collide with a later generated id;           *)
(*  - a table is the sequence of its rows in rowid order; ORDER BY is the  *)
(*    stable sort of it (SQLite leaves the order of ties open, and no      *)
(*    property below depends on it);                                       *)
(*  - SQLite's foreign keys are not enforced (expo-sqlite leaves the       *)
(*    pragma off).                                                         *)
(***************************************************************************)
EXTENDS Integers, Sequences, FiniteSets, TLC

VARIABLES
    webAS,      \* AsyncStorage of the web target
    nativeAS,   \* AsyncStorage of the native target (pre-upgrade data, MIGRATED flag)
    db,         \* the SQLite database of the native target
    now,        \* the clock read by getCurrentTimestamp
    idSeq,      \* number of ids generateId has handed out
    steps,      \* number of steps taken
    last,       \* the last facade call: arguments, results, stores before it
    calc,       \* a call of a function of calculations.ts: arguments and result
    sqlite,     \* the native database module: its `db` variable, what was opened
    callers,    \* the getDatabase calls in flight: where each one is
    tasks       \* overlapping facade calls: where each one is between its awaits

vars == <<webAS, nativeAS, db, now, idSeq, steps, last, calc, sqlite, callers, tasks>>

\* The variables the storage facade does not touch.
otherVars == <<calc, sqlite, callers, tasks>>

\* Bound on the length of a run.
MaxSteps == 3

\* Bound on the number of getDatabase calls in flight at once.
MaxCallers == 3

-----------------------------------------------------------------------------
(* Values *)

None == "none"
NoTimestamp == 0

ThemeModes == {"system", "light", "dark", "pink", "blue"}

EXPORT_VERSION == 1

Ret(kind, val) == [kind |-> kind, val |-> val]
Void == Ret("void", None)
Null == Ret("null", None)
Throw(msg) == Ret("throw", msg)

SameRet(a, b) == a.kind = b.kind /\ a.val = b.val

generateId(prefix, n) == prefix \o "_" \o ToString(n)

getTime(date) == date * 86400000

Min(a, b) == IF a < b THEN a ELSE b

-----------------------------------------------------------------------------
(* Sequences *)

Range(s) == {s[i] : i \in 1..Len(s)}

Count(s, x) == Cardinality({i \in 1..Len(s) : s[i] = x})

\* s and t hold the same elements, each as often.
SameBag(s, t) ==
    /\ Len(s) = Len(t)
    /\ \A x \in Range(s) \cup Range(t) : Count(s, x) = Count(t, x)

Ids(s) == [i \in 1..Len(s) |-> s[i].id]

\* Array.prototype.sort with a comparator a.k - b.k: ascending, stable.
RECURSIVE SortByKey(_)
SortByKey(ps) ==
    IF ps = <<>> THEN <<>>
    ELSE LET n == Len(ps)
             x == ps[n]
             rest == SortByKey(SubSeq(ps, 1, n - 1))
             le(p) == p.k <= x.k
             gt(p) == p.k > x.k
         IN SelectSeq(rest, le) \o <<x>> \o SelectSeq(rest, gt)

Unkey(ps) == [i \in 1..Len(ps) |-> ps[i].v]

\* transactions.sort((a, b) => new Date(b.date).getTime() - new Date(a.date).getTime())
SortByDateDesc(s) ==
    Unkey(SortByKey([i \in 1..Len(s) |-> [k |-> 0 - getTime(s[i].date), v |-> s[i]]]))

\* categories.sort((a, b) => a.order - b.order)
SortByOrderAsc(s) ==
    Unkey(SortByKey([i \in 1..Len(s) |-> [k |-> s[i].order, v |-> s[i]]]))

IsDateDesc(s) == \A i \in 1..Len(s) - 1 : s[i].date >= s[i + 1].date
IsOrderAsc(s) == \A i \in 1..Len(s) - 1 : s[i].order <= s[i + 1].order

-----------------------------------------------------------------------------
(* AsyncStorage *)

Absent == [has |-> FALSE, ok |-> TRUE, val |-> <<>>]
Json(v) == [has |-> TRUE, ok |-> TRUE, val |-> v]
NotJson == [has |-> TRUE, ok |-> FALSE, val |-> <<>>]
NoFlag == [has |-> FALSE, val |-> ""]
Str(s) == [has |-> TRUE, val |-> s]

EmptyStorage ==
    [TRANSACTIONS |-> Absent, CATEGORIES |-> Absent, INITIALIZED |-> NoFlag,
     THEME_MODE |-> NoFlag, MIGRATED |-> NoFlag]

IsTrue(item) == item.has /\ item.val = "true"

-----------------------------------------------------------------------------
(* Entities *)

DEFAULT_CATEGORIES == <<
    [name |-> "shokuhi", icon |-> "restaurant", color |-> "#FF6B6B", isDefault |-> TRUE, order |-> 0, type |-> "expense"],
    [name |-> "kotsuhi", icon |-> "directions-car", color |-> "#4ECDC4", isDefault |-> TRUE, order |-> 1, type |-> "expense"],
    [name |-> "goraku", icon |-> "sports-esports", color |-> "#FFD93D", isDefault |-> TRUE, order |-> 2, type |-> "expense"],
    [name |-> "konetsuhi", icon |-> "lightbulb", color |-> "#95E1D3", isDefault |-> TRUE, order |-> 3, type |-> "expense"],
    [name |-> "tsushinhi", icon |-> "phone-iphone", color |-> "#A8E6CF", isDefault |-> TRUE, order |-> 4, type |-> "expense"],
    [name |-> "iryohi", icon |-> "local-hospital", color |-> "#FF8B94", isDefault |-> TRUE, order |-> 5, type |-> "expense"],
    [name |-> "sonota", icon |-> "more-horiz", color |-> "#C7CEEA", isDefault |-> TRUE, order |-> 6, type |-> "expense"],
    [name |-> "kyuyo", icon |-> "work", color |-> "#4CAF50", isDefault |-> TRUE, order |-> 7, type |-> "income"],
    [name |-> "shoyo", icon |-> "card-giftcard", color |-> "#8BC34A", isDefault |-> TRUE, order |-> 8, type |-> "income"],
    [name |-> "rinjishunyu", icon |-> "trending-up", color |-> "#CDDC39", isDefault |-> TRUE, order |-> 9, type |-> "income"],
    [name |-> "sonota", icon |-> "more-horiz", color |-> "#FFC107", isDefault |-> TRUE, order |-> 10, type |-> "income"] >>

\* { ...transaction, id, createdAt, updatedAt }
NewTransaction(transaction, id, timestamp) ==
    [id |-> id, type |-> transaction.type, amount |-> transaction.amount,
     categoryId |-> transaction.categoryId, date |-> transaction.date,
     memo |-> transaction.memo, createdAt |-> timestamp, updatedAt |-> timestamp]

\* { ...category, id, createdAt, updatedAt }
NewCategory(category, id, timestamp) ==
    [id |-> id, name |-> category.name, icon |-> category.icon, color |-> category.color,
     isDefault |-> category.isDefault, order |-> category.order, type |-> category.type,
     customName |-> category.customName, createdAt |-> timestamp, updatedAt |-> timestamp]

\* Spread with the entity's fields written over the updates.
SpreadEntityLast(entity, updates, timestamp) ==
    [k \in DOMAIN entity |-> IF k = "updatedAt" THEN timestamp ELSE entity[k]]

\* { ...entity, ...updates, updatedAt: timestamp }: a key of updates overrides,
\* also when its value is undefined.
Spread(entity, updates, timestamp) ==
    [k \in DOMAIN entity |->
        IF k = "updatedAt" THEN timestamp
        ELSE IF k \in DOMAIN updates THEN updates[k]
        ELSE entity[k]]

\* updates.k ?? current, and updates.k !== undefined ? updates.k : current, for the
\* text fields: a key given as undefined keeps the current value.
Coalesce(updates, k, current) ==
    IF k \in DOMAIN updates /\ updates[k] # None THEN updates[k] ELSE current

\* The same for the number and boolean fields, which the callers never pass as
\* undefined.
CoalesceValue(updates, k, current) ==
    IF k \in DOMAIN updates THEN updates[k] ELSE current

FirstIndex(s, id) ==
    IF \E i \in 1..Len(s) : s[i].id = id
    THEN CHOOSE i \in 1..Len(s) : s[i].id = id /\ \A j \in 1..(i - 1) : s[j].id # id
    ELSE 0

-----------------------------------------------------------------------------
(* Key-value backend (web target) *)

DefaultCategoryEntities(firstId, timestamp) ==
    [i \in 1..Len(DEFAULT_CATEGORIES) |->
        NewCategory(DEFAULT_CATEGORIES[i] @@ [customName |-> None],
                    generateId("cat", firstId + i - 1), timestamp)]

\* initializeStorageWeb without the test of the INITIALIZED flag.
initializeStorageWebAlways(as, ids, timestamp) ==
    [as |-> [as EXCEPT !.CATEGORIES = Json(DefaultCategoryEntities(ids + 1, timestamp)),
                       !.TRANSACTIONS = Json(<<>>),
                       !.INITIALIZED = Str("true")],
     ret |-> Void, seeded |-> TRUE]

\* ids holds idSeq: the seeding calls generateId once per default category.
initializeStorageWeb(as, ids, timestamp) ==
    IF IsTrue(as.INITIALIZED)
    THEN [as |-> as, ret |-> Void, seeded |-> FALSE]
    ELSE [as |-> [as EXCEPT !.CATEGORIES = Json(DefaultCategoryEntities(ids + 1, timestamp)),
                            !.TRANSACTIONS = Json(<<>>),
                            !.INITIALIZED = Str("true")],
          ret |-> Void, seeded |-> TRUE]

\* getTransactionsWeb without the sort.
getTransactionsWebUnsorted(as) ==
    IF ~as.TRANSACTIONS.has THEN <<>>
    ELSE IF ~as.TRANSACTIONS.ok THEN <<>>
    ELSE as.TRANSACTIONS.val

getTransactionsWeb(as) ==
    IF ~as.TRANSACTIONS.has THEN <<>>
    ELSE IF ~as.TRANSACTIONS.ok THEN <<>>
    ELSE SortByDateDesc(as.TRANSACTIONS.val)

saveTransactionWeb(as, transaction, id, timestamp) ==
    LET transactions == getTransactionsWeb(as)
        newTransaction == NewTransaction(transaction, id, timestamp)
    IN [as |-> [as EXCEPT !.TRANSACTIONS = Json(Append(transactions, newTransaction))],
        ret |-> Ret("entity", newTransaction)]

updateTransactionWeb(as, id, updates, timestamp) ==
    LET transactions == getTransactionsWeb(as)
        index == FirstIndex(transactions, id)
        updated == Spread(transactions[index], updates, timestamp)
    IN IF index = 0 THEN [as |-> as, ret |-> Null]
       ELSE [as |-> [as EXCEPT !.TRANSACTIONS = Json([transactions EXCEPT ![index] = updated])],
             ret |-> Ret("entity", updated)]

deleteTransactionWeb(as, id) ==
    LET transactions == getTransactionsWeb(as)
        keep(t) == t.id # id
        filtered == SelectSeq(transactions, keep)
    IN IF Len(filtered) = Len(transactions) THEN [as |-> as, ret |-> Ret("bool", FALSE)]
       ELSE [as |-> [as EXCEPT !.TRANSACTIONS = Json(filtered)], ret |-> Ret("bool", TRUE)]

getCategoriesWeb(as) ==
    IF ~as.CATEGORIES.has THEN <<>>
    ELSE IF ~as.CATEGORIES.ok THEN <<>>
    ELSE SortByOrderAsc(as.CATEGORIES.val)

saveCategoryWeb(as, category, id, timestamp) ==
    LET categories == getCategoriesWeb(as)
        newCategory == NewCategory(category, id, timestamp)
    IN [as |-> [as EXCEPT !.CATEGORIES = Json(Append(categories, newCategory))],
        ret |-> Ret("entity", newCategory)]

updateCategoryWeb(as, id, updates, timestamp) ==
    LET categories == getCategoriesWeb(as)
        index == FirstIndex(categories, id)
        updated == Spread(categories[index], updates, timestamp)
    IN IF index = 0 THEN [as |-> as, ret |-> Null]
       ELSE [as |-> [as EXCEPT !.CATEGORIES = Json([categories EXCEPT ![index] = updated])],
             ret |-> Ret("entity", updated)]

deleteCategoryWeb(as, id) ==
    LET categories == getCategoriesWeb(as)
        keep(c) == c.id # id
        filtered == SelectSeq(categories, keep)
    IN IF Len(filtered) = Len(categories) THEN [as |-> as, ret |-> Ret("bool", FALSE)]
       ELSE [as |-> [as EXCEPT !.CATEGORIES = Json(filtered)], ret |-> Ret("bool", TRUE)]

\* new Map(categoryOrders.map(c => [c.id, c.order])).get(id): the last pair of an id wins.
OrderOf(categoryOrders, id) ==
    LET hits == {i \in 1..Len(categoryOrders) : categoryOrders[i].id = id}
    IN IF hits = {} THEN None
       ELSE categoryOrders[CHOOSE i \in hits : \A j \in hits : j <= i].order

updateCategoryOrdersWeb(as, categoryOrders, timestamp) ==
    LET categories == getCategoriesWeb(as)
        updatedCategories ==
            [i \in 1..Len(categories) |->
                IF \E j \in 1..Len(categoryOrders) : categoryOrders[j].id = categories[i].id
                THEN [categories[i] EXCEPT !.order = OrderOf(categoryOrders, categories[i].id),
                                           !.updatedAt = timestamp]
                ELSE categories[i]]
    IN [as |-> [as EXCEPT !.CATEGORIES = Json(updatedCategories)], ret |-> Void]

\* MIGRATED is not among the keys removed.
clearAllDataWeb(as) ==
    [as |-> [as EXCEPT !.TRANSACTIONS = Absent, !.CATEGORIES = Absent,
                       !.THEME_MODE = NoFlag, !.INITIALIZED = NoFlag],
     ret |-> Void]

\* (mode as ThemeMode) || "system"
getThemeModeWeb(as) ==
    IF as.THEME_MODE.has /\ as.THEME_MODE.val # "" THEN as.THEME_MODE.val ELSE "system"

saveThemeModeWeb(as, mode) ==
    [as |-> [as EXCEPT !.THEME_MODE = Str(mode)], ret |-> Void]

-----------------------------------------------------------------------------
(* Relational backend (native target) *)

EmptyDb == [categories |-> <<>>, transactions |-> <<>>, settings |-> {}]

rowToCategory(row) ==
    [id |-> row.id, name |-> row.name, icon |-> row.icon, color |-> row.color,
     isDefault |-> (row.is_default = 1), order |-> row.display_order, type |-> row.type,
     customName |-> row.custom_name, createdAt |-> row.created_at,
     updatedAt |-> row.updated_at]

rowToTransaction(row) ==
    [id |-> row.id, type |-> row.type, amount |-> row.amount,
     categoryId |-> row.category_id, date |-> row.date, memo |-> row.memo,
     createdAt |-> row.created_at, updatedAt |-> row.updated_at]

\* The bound parameters of the INSERT statements.
CategoryRow(cat, createdAt, updatedAt) ==
    [id |-> cat.id, name |-> cat.name, icon |-> cat.icon, color |-> cat.color,
     is_default |-> (IF cat.isDefault THEN 1 ELSE 0), display_order |-> cat.order,
     type |-> cat.type, custom_name |-> cat.customName,
     created_at |-> createdAt, updated_at |-> updatedAt]

TransactionRow(txn, createdAt, updatedAt) ==
    [id |-> txn.id, type |-> txn.type, amount |-> txn.amount,
     category_id |-> txn.categoryId, date |-> txn.date, memo |-> txn.memo,
     created_at |-> createdAt, updated_at |-> updatedAt]

\* CHECK(type IN ('income', 'expense')), created_at / updated_at NOT NULL
RowAllowed(row) ==
    /\ row.type \in {"income", "expense"}
    /\ row.created_at # NoTimestamp
    /\ row.updated_at # NoTimestamp

HasRow(table, id) == \E i \in 1..Len(table) : table[i].id = id

\* INSERT INTO: fails on a primary key that exists.
InsertRow(table, row) ==
    IF HasRow(table, row.id) \/ ~RowAllowed(row)
    THEN [ok |-> FALSE, table |-> table]
    ELSE [ok |-> TRUE, table |-> Append(table, row)]

\* A plain append, whatever the primary key.
InsertOrReplaceRowAppending(table, row) == [ok |-> TRUE, table |-> Append(table, row)]

\* INSERT OR REPLACE INTO: the row of the same primary key is deleted first.
InsertOrReplaceRow(table, row) ==
    LET other(r) == r.id # row.id
    IN IF ~RowAllowed(row)
       THEN [ok |-> FALSE, table |-> table]
       ELSE [ok |-> TRUE, table |-> Append(SelectSeq(table, other), row)]

\* for (const row of rows) await db.runAsync(INSERT ...): stops at the first throw.
RECURSIVE InsertAll(_, _)
InsertAll(table, rows) ==
    IF rows = <<>> THEN [ok |-> TRUE, table |-> table]
    ELSE LET r == InsertRow(table, Head(rows))
         IN IF r.ok THEN InsertAll(r.table, Tail(rows)) ELSE r

RECURSIVE InsertOrReplaceAll(_, _)
InsertOrReplaceAll(table, rows) ==
    IF rows = <<>> THEN [ok |-> TRUE, table |-> table]
    ELSE LET r == InsertOrReplaceRow(table, Head(rows))
         IN IF r.ok THEN InsertOrReplaceAll(r.table, Tail(rows)) ELSE r

\* INSERT OR REPLACE INTO settings (key, value)
PutSetting(settings, key, value) ==
    {r \in settings : r.key # key} \cup {[key |-> key, value |-> value]}

-----------------------------------------------------------------------------
(* Migration AsyncStorage -> SQLite *)

NoFault == <<"none", 0>>

\* fault = <<call, k>>: the k-th call of that kind throws.
Hits(fault, call, k) == fault[1] = call /\ fault[2] = k

\* The loop going on to the next step after a call has thrown.
UpsertSwallowingFault(table, rows, fault, call) ==
    LET stop == IF fault[1] = call /\ fault[2] \in 1..Len(rows) THEN fault[2] - 1 ELSE Len(rows)
    IN [ok |-> TRUE, table |-> InsertOrReplaceAll(table, SubSeq(rows, 1, stop)).table]

\* The rows upserted before the loop ends or a call throws.
UpsertUntilFault(table, rows, fault, call) ==
    LET stop == IF fault[1] = call /\ fault[2] \in 1..Len(rows) THEN fault[2] - 1 ELSE Len(rows)
        r == InsertOrReplaceAll(table, SubSeq(rows, 1, stop))
    IN [ok |-> r.ok /\ stop = Len(rows), table |-> r.table]

migrateFromAsyncStorage(as, d, fault) ==
    LET abort(d2) == [as |-> as, db |-> d2, done |-> FALSE]
        categories == IF as.CATEGORIES.has THEN as.CATEGORIES.val ELSE <<>>
        catRows == [i \in 1..Len(categories) |->
                      CategoryRow(categories[i], categories[i].createdAt, categories[i].updatedAt)]
        c == UpsertUntilFault(d.categories, catRows, fault, "upsertCategory")
        d1 == [d EXCEPT !.categories = c.table]
        transactions == IF as.TRANSACTIONS.has THEN as.TRANSACTIONS.val ELSE <<>>
        txnRows == [i \in 1..Len(transactions) |->
                      TransactionRow(transactions[i], transactions[i].createdAt,
                                     transactions[i].updatedAt)]
        t == UpsertUntilFault(d1.transactions, txnRows, fault, "upsertTransaction")
        d2 == [d1 EXCEPT !.transactions = t.table]
        hasTheme == as.THEME_MODE.has /\ as.THEME_MODE.val # ""
        d3 == IF hasTheme
              THEN [d2 EXCEPT !.settings = PutSetting(d2.settings, "theme_mode", as.THEME_MODE.val)]
              ELSE d2
    IN IF Hits(fault, "getMigrated", 1) THEN abort(d)
       ELSE IF IsTrue(as.MIGRATED) THEN [as |-> as, db |-> d, done |-> TRUE]
       ELSE IF Hits(fault, "getCategories", 1) THEN abort(d)
       ELSE IF as.CATEGORIES.has /\ ~as.CATEGORIES.ok THEN abort(d)
       ELSE IF ~c.ok THEN abort(d1)
       ELSE IF Hits(fault, "getTransactions", 1) THEN abort(d1)
       ELSE IF as.TRANSACTIONS.has /\ ~as.TRANSACTIONS.ok THEN abort(d1)
       ELSE IF ~t.ok THEN abort(d2)
       ELSE IF Hits(fault, "getThemeMode", 1) THEN abort(d2)
       ELSE IF hasTheme /\ Hits(fault, "upsertThemeMode", 1) THEN abort(d2)
       ELSE IF Hits(fault, "setMigrated", 1) THEN abort(d3)
       ELSE [as |-> [as EXCEPT !.MIGRATED = Str("true")], db |-> d3, done |-> TRUE]

-----------------------------------------------------------------------------
(* Relational backend: operations *)

DefaultCategoryRows(firstId, timestamp) ==
    [i \in 1..Len(DEFAULT_CATEGORIES) |->
        CategoryRow(DEFAULT_CATEGORIES[i] @@
                        [id |-> generateId("cat", firstId + i - 1), customName |-> None],
                    timestamp, timestamp)]

initializeStorageNative(as, d, ids, timestamp, fault) ==
    LET m == migrateFromAsyncStorage(as, d, fault)
        count == Len(m.db.categories)
        seed == InsertAll(m.db.categories, DefaultCategoryRows(ids + 1, timestamp))
    IN IF count = 0
       THEN [as |-> m.as, db |-> [m.db EXCEPT !.categories = seed.table],
             ret |-> IF seed.ok THEN Void ELSE Throw("constraint"),
             seeded |-> TRUE, migrated |-> m.done]
       ELSE [as |-> m.as, db |-> m.db, ret |-> Void, seeded |-> FALSE, migrated |-> m.done]

\* SELECT * FROM transactions ORDER BY date DESC
getTransactionsNative(d) ==
    LET rows == SortByDateDesc(d.transactions)
    IN [i \in 1..Len(rows) |-> rowToTransaction(rows[i])]

\* saveTransactionNative binding null for the memo.
saveTransactionNativeNoMemo(d, transaction, id, timestamp) ==
    LET entity == NewTransaction(transaction, id, timestamp)
        r == InsertRow(d.transactions,
                       [TransactionRow(entity, timestamp, timestamp) EXCEPT !.memo = None])
    IN IF r.ok THEN [db |-> [d EXCEPT !.transactions = r.table], ret |-> Ret("entity", entity)]
       ELSE [db |-> d, ret |-> Throw("constraint")]

saveTransactionNative(d, transaction, id, timestamp) ==
    LET entity == NewTransaction(transaction, id, timestamp)
        r == InsertRow(d.transactions, TransactionRow(entity, timestamp, timestamp))
    IN IF r.ok THEN [db |-> [d EXCEPT !.transactions = r.table], ret |-> Ret("entity", entity)]
       ELSE [db |-> d, ret |-> Throw("constraint")]

updateTransactionNative(d, id, updates, timestamp) ==
    LET index == FirstIndex(d.transactions, id)
        current == d.transactions[index]
        updated == [type |-> Coalesce(updates, "type", current.type),
                    amount |-> CoalesceValue(updates, "amount", current.amount),
                    categoryId |-> Coalesce(updates, "categoryId", current.category_id),
                    date |-> CoalesceValue(updates, "date", current.date),
                    memo |-> Coalesce(updates, "memo", current.memo)]
        row == [current EXCEPT !.type = updated.type, !.amount = updated.amount,
                               !.category_id = updated.categoryId, !.date = updated.date,
                               !.memo = updated.memo, !.updated_at = timestamp]
    IN IF index = 0 THEN [db |-> d, ret |-> Null]
       ELSE IF ~RowAllowed(row) THEN [db |-> d, ret |-> Throw("constraint")]
       ELSE [db |-> [d EXCEPT !.transactions[index] = row],
             ret |-> Ret("entity",
                         [id |-> id, type |-> updated.type, amount |-> updated.amount,
                          categoryId |-> updated.categoryId, date |-> updated.date,
                          memo |-> updated.memo, createdAt |-> current.created_at,
                          updatedAt |-> timestamp])]

\* DELETE FROM transactions WHERE id = ?; result.changes > 0
deleteTransactionNative(d, id) ==
    LET keep(r) == r.id # id
        remaining == SelectSeq(d.transactions, keep)
        changes == Len(d.transactions) - Len(remaining)
    IN [db |-> [d EXCEPT !.transactions = remaining], ret |-> Ret("bool", changes > 0)]

\* SELECT * FROM categories ORDER BY display_order ASC
getCategoriesNative(d) ==
    LET entities == [i \in 1..Len(d.categories) |-> rowToCategory(d.categories[i])]
    IN SortByOrderAsc(entities)

saveCategoryNative(d, category, id, timestamp) ==
    LET entity == NewCategory(category, id, timestamp)
        r == InsertRow(d.categories, CategoryRow(entity, timestamp, timestamp))
    IN IF r.ok THEN [db |-> [d EXCEPT !.categories = r.table], ret |-> Ret("entity", entity)]
       ELSE [db |-> d, ret |-> Throw("constraint")]

updateCategoryNative(d, id, updates, timestamp) ==
    LET index == FirstIndex(d.categories, id)
        current == d.categories[index]
        updated == [name |-> Coalesce(updates, "name", current.name),
                    icon |-> Coalesce(updates, "icon", current.icon),
                    color |-> Coalesce(updates, "color", current.color),
                    isDefault |-> CoalesceValue(updates, "isDefault", current.is_default = 1),
                    order |-> CoalesceValue(updates, "order", current.display_order),
                    type |-> Coalesce(updates, "type", current.type),
                    customName |-> Coalesce(updates, "customName", current.custom_name)]
        row == [current EXCEPT !.name = updated.name, !.icon = updated.icon,
                               !.color = updated.color,
                               !.is_default = (IF updated.isDefault THEN 1 ELSE 0),
                               !.display_order = updated.order, !.type = updated.type,
                               !.custom_name = updated.customName, !.updated_at = timestamp]
    IN IF index = 0 THEN [db |-> d, ret |-> Null]
       ELSE IF ~RowAllowed(row) THEN [db |-> d, ret |-> Throw("constraint")]
       ELSE [db |-> [d EXCEPT !.categories[index] = row],
             ret |-> Ret("entity",
                         [id |-> id, name |-> updated.name, icon |-> updated.icon,
                          color |-> updated.color, isDefault |-> updated.isDefault,
                          order |-> updated.order, type |-> updated.type,
                          customName |-> updated.customName,
                          createdAt |-> current.created_at, updatedAt |-> timestamp])]

deleteCategoryNative(d, id) ==
    LET keep(r) == r.id # id
        remaining == SelectSeq(d.categories, keep)
        changes == Len(d.categories) - Len(remaining)
    IN [db |-> [d EXCEPT !.categories = remaining], ret |-> Ret("bool", changes > 0)]

\* The UPDATE without updated_at = ?.
RECURSIVE updateCategoryOrdersRowsOrderOnly(_, _, _)
updateCategoryOrdersRowsOrderOnly(table, categoryOrders, timestamp) ==
    IF categoryOrders = <<>> THEN table
    ELSE LET p == Head(categoryOrders)
             t == [i \in 1..Len(table) |->
                      IF table[i].id = p.id
                      THEN [table[i] EXCEPT !.display_order = p.order]
                      ELSE table[i]]
         IN updateCategoryOrdersRowsOrderOnly(t, Tail(categoryOrders), timestamp)

\* for (const {id, order} of categoryOrders) UPDATE categories SET display_order, updated_at
RECURSIVE updateCategoryOrdersRows(_, _, _)
updateCategoryOrdersRows(table, categoryOrders, timestamp) ==
    IF categoryOrders = <<>> THEN table
    ELSE LET p == Head(categoryOrders)
             t == [i \in 1..Len(table) |->
                      IF table[i].id = p.id
                      THEN [table[i] EXCEPT !.display_order = p.order, !.updated_at = timestamp]
                      ELSE table[i]]
         IN updateCategoryOrdersRows(t, Tail(categoryOrders), timestamp)

updateCategoryOrdersNative(d, categoryOrders, timestamp) ==
    [db |-> [d EXCEPT !.categories = updateCategoryOrdersRows(d.categories, categoryOrders, timestamp)],
     ret |-> Void]

clearAllDataNative(d) ==
    [db |-> [d EXCEPT !.transactions = <<>>, !.categories = <<>>, !.settings = {}],
     ret |-> Void]

\* (result?.value as ThemeMode) || "system"
getThemeModeNative(d) ==
    LET hit == {r \in d.settings : r.key = "theme_mode"}
    IN IF hit = {} THEN "system"
       ELSE LET value == (CHOOSE r \in hit : TRUE).value
            IN IF value = "" THEN "system" ELSE value

saveThemeModeNative(d, mode) ==
    [db |-> [d EXCEPT !.settings = PutSetting(d.settings, "theme_mode", mode)], ret |-> Void]

-----------------------------------------------------------------------------
(* Import *)

NoStats == [transactions |-> -1, categories |-> -1]
Failure(error) == Ret("result", [success |-> FALSE, error |-> error, stats |-> NoStats])
Success(document) ==
    Ret("result", [success |-> TRUE, error |-> None,
                   stats |-> [transactions |-> Len(document.transactions),
                              categories |-> Len(document.categories)]])

\* Only the first test of the validation.
validateImportDataObjectOnly(document) == document.isObject

validateImportData(document) ==
    /\ document.isObject
    /\ document.versionIsNumber
    /\ document.dataIsObject
    /\ document.transactionsIsArray
    /\ document.categoriesIsArray

\* The return taken before anything is written, or None.
ImportRejection(document) ==
    IF document.picked = "canceled" THEN "canceled"
    ELSE IF document.picked = "noAsset" THEN "no file"
    ELSE IF ~document.parses THEN "not JSON"
    ELSE IF ~validateImportData(document) THEN "wrong shape"
    ELSE IF document.version > EXPORT_VERSION THEN "newer version"
    ELSE None

\* importData of data-export.ts
importDataWeb(as, document) ==
    LET rejected == ImportRejection(document)
        hasTheme == document.themeMode # None /\ document.themeMode # ""
    IN IF rejected # None THEN [as |-> as, ret |-> Failure(rejected)]
       ELSE [as |-> [as EXCEPT !.TRANSACTIONS = Json(document.transactions),
                               !.CATEGORIES = Json(document.categories),
                               !.THEME_MODE = IF hasTheme THEN Str(document.themeMode) ELSE @,
                               !.INITIALIZED = Str("true")],
             ret |-> Success(document)]

\* The time of the import for every row.
OrTimestampAlways(t, timestamp) == timestamp

\* x.createdAt || timestamp
OrTimestamp(t, timestamp) == IF t = NoTimestamp THEN timestamp ELSE t

\* importData of data-export.native.ts
importDataNative(d, document, timestamp) ==
    LET rejected == ImportRejection(document)
        catRows == [i \in 1..Len(document.categories) |->
                      CategoryRow(document.categories[i],
                                  OrTimestamp(document.categories[i].createdAt, timestamp),
                                  OrTimestamp(document.categories[i].updatedAt, timestamp))]
        txnRows == [i \in 1..Len(document.transactions) |->
                      TransactionRow(document.transactions[i],
                                     OrTimestamp(document.transactions[i].createdAt, timestamp),
                                     OrTimestamp(document.transactions[i].updatedAt, timestamp))]
        c == InsertAll(<<>>, catRows)
        t == InsertAll(<<>>, txnRows)
        hasTheme == document.themeMode # None /\ document.themeMode # ""
        cleared == [d EXCEPT !.transactions = <<>>, !.categories = <<>>]
    IN IF rejected # None THEN [db |-> d, ret |-> Failure(rejected)]
       ELSE IF ~c.ok THEN [db |-> [cleared EXCEPT !.categories = c.table],
                           ret |-> Failure("constraint")]
       ELSE IF ~t.ok THEN [db |-> [cleared EXCEPT !.categories = c.table,
                                                  !.transactions = t.table],
                           ret |-> Failure("constraint")]
       ELSE [db |-> [d EXCEPT !.categories = c.table, !.transactions = t.table,
                              !.settings = IF hasTheme
                                           THEN saveThemeModeNative(d, document.themeMode).db.settings
                                           ELSE @],
             ret |-> Success(document)]

-----------------------------------------------------------------------------
(* Inputs *)

UnknownTransactionId == "txn_0"
UnknownCategoryId == "cat_0"

TransactionInputs ==
    { [type |-> "expense", amount |-> 1000, categoryId |-> "cat_1", date |-> 2, memo |-> None],
      [type |-> "income", amount |-> 5000, categoryId |-> None, date |-> 1, memo |-> "salary"] }

\* {amount}; the edit form's payload, with memo: memo || undefined; {date}
TransactionUpdateInputs ==
    { [amount |-> 1500],
      [type |-> "expense", amount |-> 1500, categoryId |-> "cat_2", date |-> 3, memo |-> None],
      [date |-> 0] }

CategoryInputs ==
    { [name |-> "custom", icon |-> "star", color |-> "#FF0000", isDefault |-> FALSE,
       order |-> 5, type |-> "expense", customName |-> None] }

CategoryUpdateInputs ==
    { [name |-> "renamed"],
      [name |-> "renamed", icon |-> "star", color |-> "#00FF00"],
      [order |-> 20, isDefault |-> FALSE] }

CategoryOrderInputs ==
    { << [id |-> "cat_1", order |-> 9], [id |-> "cat_8", order |-> 0] >>,
      << [id |-> UnknownCategoryId, order |-> 2], [id |-> "cat_doc1", order |-> 4],
         [id |-> "cat_doc1", order |-> 6] >> }

ThemeModeInputs == {"dark", "system"}

MigrationFaultInputs ==
    {NoFault, <<"getMigrated", 1>>, <<"upsertCategory", 2>>, <<"setMigrated", 1>>}

\* Records written by the build before the upgrade to SQLite.
OldCategories ==
    << [id |-> "cat_old1", name |-> "shokuhi", icon |-> "restaurant", color |-> "#FF6B6B",
        isDefault |-> TRUE, order |-> 0, type |-> "expense", customName |-> None,
        createdAt |-> 1, updatedAt |-> 1],
       [id |-> "cat_old2", name |-> "kyuyo", icon |-> "work", color |-> "#4CAF50",
        isDefault |-> TRUE, order |-> 7, type |-> "income", customName |-> None,
        createdAt |-> 1, updatedAt |-> 1] >>

OldTransactions ==
    << [id |-> "txn_old1", type |-> "expense", amount |-> 700, categoryId |-> "cat_old1",
        date |-> 1, memo |-> "lunch", createdAt |-> 1, updatedAt |-> 1] >>

OldStorages ==
    { EmptyStorage,
      [EmptyStorage EXCEPT !.CATEGORIES = Json(OldCategories),
                           !.TRANSACTIONS = Json(OldTransactions),
                           !.THEME_MODE = Str("dark"), !.INITIALIZED = Str("true")],
      [EmptyStorage EXCEPT !.CATEGORIES = Json(OldCategories),
                           !.TRANSACTIONS = NotJson, !.INITIALIZED = Str("true")] }

DocCategory ==
    [id |-> "cat_doc1", name |-> "hobby", icon |-> "star", color |-> "#123456",
     isDefault |-> FALSE, order |-> 3, type |-> "expense", customName |-> None,
     createdAt |-> 1, updatedAt |-> 1]

DocTransaction ==
    [id |-> "txn_doc1", type |-> "expense", amount |-> 300, categoryId |-> "cat_doc1",
     date |-> 1, memo |-> "book", createdAt |-> 1, updatedAt |-> 1]

\* A row exported without timestamps.
DocTransactionBare ==
    [DocTransaction EXCEPT !.id = "txn_doc2", !.date = 2, !.createdAt = NoTimestamp,
                           !.updatedAt = NoTimestamp]

Document(version, transactions, categories, themeMode) ==
    [picked |-> "file", parses |-> TRUE, isObject |-> TRUE, versionIsNumber |-> TRUE,
     version |-> version, dataIsObject |-> TRUE, transactionsIsArray |-> TRUE,
     categoriesIsArray |-> TRUE, transactions |-> transactions, categories |-> categories,
     themeMode |-> themeMode]

GoodDocument == Document(1, <<DocTransaction, DocTransactionBare>>, <<DocCategory>>, "pink")

DocumentInputs ==
    { [GoodDocument EXCEPT !.picked = "canceled"],
      [GoodDocument EXCEPT !.parses = FALSE],
      [GoodDocument EXCEPT !.versionIsNumber = FALSE],
      [GoodDocument EXCEPT !.transactionsIsArray = FALSE, !.transactions = <<>>],
      [GoodDocument EXCEPT !.version = 2],
      GoodDocument,
      \* the same transaction id twice, no theme
      Document(1, <<DocTransaction, [DocTransaction EXCEPT !.amount = 400]>>, <<DocCategory>>, None),
      \* an older version, a theme outside the enumeration
      Document(0, <<>>, <<DocCategory>>, "purple") }

-----------------------------------------------------------------------------
(* The facade, applied to both targets *)

getTransactions == [web |-> getTransactionsWeb(webAS), native |-> getTransactionsNative(db)]
getCategories == [web |-> getCategoriesWeb(webAS), native |-> getCategoriesNative(db)]
getThemeMode == [web |-> getThemeModeWeb(webAS), native |-> getThemeModeNative(db)]

\* The same reads on the stores as they were before the last call.
TransactionsBefore ==
    [web |-> getTransactionsWeb(last.pre.webAS), native |-> getTransactionsNative(last.pre.db)]
CategoriesBefore ==
    [web |-> getCategoriesWeb(last.pre.webAS), native |-> getCategoriesNative(last.pre.db)]
ThemeModeBefore ==
    [web |-> getThemeModeWeb(last.pre.webAS), native |-> getThemeModeNative(last.pre.db)]

Targets == {"web", "native"}

\* The stores and the clock as a call finds them, and the call before it.
Snapshot ==
    [webAS |-> webAS, nativeAS |-> nativeAS, db |-> db, now |-> now, op |-> last.op,
     ret |-> [web |-> last.web.kind, native |-> last.native.kind]]

\* The arguments of the deleteTransaction calls that returned true on the
\* native target since the last import.
Deleted(op, arg, native) ==
    IF op = "importData" THEN {}
    ELSE IF op = "deleteTransaction" /\ native.kind = "bool" /\ native.val
    THEN last.deleted \cup {arg}
    ELSE last.deleted

Called(op, arg, web, native) ==
    last' = [n |-> steps + 1, op |-> op, arg |-> arg, web |-> web, native |-> native,
             imported |-> (last.imported \/ op = "importData"),
             deleted |-> Deleted(op, arg, native), pre |-> Snapshot]

TransactionIdInputs ==
    Range(Ids(getTransactions.web)) \cup Range(Ids(getTransactions.native))
        \cup {UnknownTransactionId}

FocusCategoryIds == {"cat_1", "cat_8", "cat_12", "cat_old1", "cat_doc1"}

CategoryIdInputs ==
    ((Range(Ids(getCategories.web)) \cup Range(Ids(getCategories.native)))
        \cap FocusCategoryIds) \cup {UnknownCategoryId}

\* No calculation has been called.
NoCalc == [op |-> "none", arg |-> None, ret |-> None]

\* let db = null: connections are numbered from 1 in the order they are opened.
NoConnection == 0

\* tables: whether the tables of SCHEMA_VERSION exist in the database file.
ClosedDatabase == [db |-> NoConnection, opened |-> 0, schemaRuns |-> 0, tables |-> FALSE]

Callers == 1..MaxCallers

\* ready: whether the tables existed when the caller was handed its connection.
NotCalled ==
    [c \in Callers |-> [pc |-> "idle", opening |-> NoConnection, got |-> NoConnection,
                        ready |-> FALSE]]

\* Bound on the number of facade calls that overlap.
MaxTasks == 2

Tasks == 1..MaxTasks

\* A facade call that has not started: what it read, and when it read and wrote.
NotStarted ==
    [t \in Tasks |-> [op |-> "none", pc |-> "idle", seen |-> Absent, readAt |-> 0,
                      wroteAt |-> 0, arg |-> None, id |-> "", ret |-> Void]]

Init ==
    /\ calc = NoCalc
    /\ sqlite = ClosedDatabase
    /\ callers = NotCalled
    /\ tasks = NotStarted
    /\ webAS = EmptyStorage
    /\ nativeAS \in OldStorages
    /\ db = EmptyDb
    /\ now = 2
    /\ idSeq = 0
    /\ steps = 0
    /\ last = [n |-> 0, op |-> "none", arg |-> None, web |-> Void, native |-> Void,
               imported |-> FALSE, deleted |-> {},
               pre |-> [webAS |-> EmptyStorage, nativeAS |-> nativeAS, db |-> EmptyDb,
                        now |-> 2, op |-> "none", ret |-> [web |-> "void", native |-> "void"]]]

\* Time passes between two calls.
Tick ==
    /\ steps < MaxSteps
    /\ UNCHANGED otherVars
    /\ now' = now + 1
    /\ steps' = steps + 1
    /\ UNCHANGED <<webAS, nativeAS, db, idSeq, last>>

InitializeStorage ==
    /\ steps < MaxSteps
    /\ UNCHANGED otherVars
    /\ \E fault \in MigrationFaultInputs :
        LET w == initializeStorageWeb(webAS, idSeq, now)
            n == initializeStorageNative(nativeAS, db, idSeq, now, fault)
        IN /\ webAS' = w.as
           /\ nativeAS' = n.as
           /\ db' = n.db
           /\ idSeq' = IF w.seeded \/ n.seeded THEN idSeq + Len(DEFAULT_CATEGORIES) ELSE idSeq
           /\ Called("initializeStorage",
                     [migrated |-> n.migrated, seeded |-> n.seeded, fault |-> fault],
                     w.ret, n.ret)
    /\ steps' = steps + 1
    /\ UNCHANGED now

SaveTransaction ==
    /\ steps < MaxSteps
    /\ UNCHANGED otherVars
    /\ \E transaction \in TransactionInputs :
        LET id == generateId("txn", idSeq + 1)
            w == saveTransactionWeb(webAS, transaction, id, now)
            n == saveTransactionNative(db, transaction, id, now)
        IN /\ webAS' = w.as
           /\ db' = n.db
           /\ Called("saveTransaction", transaction, w.ret, n.ret)
    /\ idSeq' = idSeq + 1
    /\ steps' = steps + 1
    /\ UNCHANGED <<nativeAS, now>>

UpdateTransaction ==
    /\ steps < MaxSteps
    /\ UNCHANGED otherVars
    /\ \E id \in TransactionIdInputs, updates \in TransactionUpdateInputs :
        LET w == updateTransactionWeb(webAS, id, updates, now)
            n == updateTransactionNative(db, id, updates, now)
        IN /\ webAS' = w.as
           /\ db' = n.db
           /\ Called("updateTransaction", [id |-> id, updates |-> updates], w.ret, n.ret)
    /\ steps' = steps + 1
    /\ UNCHANGED <<nativeAS, now, idSeq>>

DeleteTransaction ==
    /\ steps < MaxSteps
    /\ UNCHANGED otherVars
    /\ \E id \in TransactionIdInputs :
        LET w == deleteTransactionWeb(webAS, id)
            n == deleteTransactionNative(db, id)
        IN /\ webAS' = w.as
           /\ db' = n.db
           /\ Called("deleteTransaction", id, w.ret, n.ret)
    /\ steps' = steps + 1
    /\ UNCHANGED <<nativeAS, now, idSeq>>

SaveCategory ==
    /\ steps < MaxSteps
    /\ UNCHANGED otherVars
    /\ \E category \in CategoryInputs :
        LET id == generateId("cat", idSeq + 1)
            w == saveCategoryWeb(webAS, category, id, now)
            n == saveCategoryNative(db, category, id, now)
        IN /\ webAS' = w.as
           /\ db' = n.db
           /\ Called("saveCategory", category, w.ret, n.ret)
    /\ idSeq' = idSeq + 1
    /\ steps' = steps + 1
    /\ UNCHANGED <<nativeAS, now>>

UpdateCategory ==
    /\ steps < MaxSteps
    /\ UNCHANGED otherVars
    /\ \E id \in CategoryIdInputs, updates \in CategoryUpdateInputs :
        LET w == updateCategoryWeb(webAS, id, updates, now)
            n == updateCategoryNative(db, id, updates, now)
        IN /\ webAS' = w.as
           /\ db' = n.db
           /\ Called("updateCategory", [id |-> id, updates |-> updates], w.ret, n.ret)
    /\ steps' = steps + 1
    /\ UNCHANGED <<nativeAS, now, idSeq>>

DeleteCategory ==
    /\ steps < MaxSteps
    /\ UNCHANGED otherVars
    /\ \E id \in CategoryIdInputs :
        LET w == deleteCategoryWeb(webAS, id)
            n == deleteCategoryNative(db, id)
        IN /\ webAS' = w.as
           /\ db' = n.db
           /\ Called("deleteCategory", id, w.ret, n.ret)
    /\ steps' = steps + 1
    /\ UNCHANGED <<nativeAS, now, idSeq>>

UpdateCategoryOrders ==
    /\ steps < MaxSteps
    /\ UNCHANGED otherVars
    /\ \E categoryOrders \in CategoryOrderInputs :
        LET w == updateCategoryOrdersWeb(webAS, categoryOrders, now)
            n == updateCategoryOrdersNative(db, categoryOrders, now)
        IN /\ webAS' = w.as
           /\ db' = n.db
           /\ Called("updateCategoryOrders", categoryOrders, w.ret, n.ret)
    /\ steps' = steps + 1
    /\ UNCHANGED <<nativeAS, now, idSeq>>

ClearAllData ==
    /\ steps < MaxSteps
    /\ UNCHANGED otherVars
    /\ LET w == clearAllDataWeb(webAS)
           n == clearAllDataNative(db)
       IN /\ webAS' = w.as
          /\ db' = n.db
          /\ Called("clearAllData", None, w.ret, n.ret)
    /\ steps' = steps + 1
    /\ UNCHANGED <<nativeAS, now, idSeq>>

SaveThemeMode ==
    /\ steps < MaxSteps
    /\ UNCHANGED otherVars
    /\ \E mode \in ThemeModeInputs :
        LET w == saveThemeModeWeb(webAS, mode)
            n == saveThemeModeNative(db, mode)
        IN /\ webAS' = w.as
           /\ db' = n.db
           /\ Called("saveThemeMode", mode, w.ret, n.ret)
    /\ steps' = steps + 1
    /\ UNCHANGED <<nativeAS, now, idSeq>>

ImportData ==
    /\ steps < MaxSteps
    /\ UNCHANGED otherVars
    /\ \E document \in DocumentInputs :
        LET w == importDataWeb(webAS, document)
            n == importDataNative(db, document, now)
        IN /\ webAS' = w.as
           /\ db' = n.db
           /\ Called("importData", document, w.ret, n.ret)
    /\ steps' = steps + 1
    /\ UNCHANGED <<nativeAS, now, idSeq>>

Next ==
    \/ Tick
    \/ InitializeStorage
    \/ SaveTransaction
    \/ UpdateTransaction
    \/ DeleteTransaction
    \/ SaveCategory
    \/ UpdateCategory
    \/ DeleteCategory
    \/ UpdateCategoryOrders
    \/ ClearAllData
    \/ SaveThemeMode
    \/ ImportData

Spec == Init /\ [][Next]_vars

-----------------------------------------------------------------------------
(* Category screens *)

\* Bound on the number of gestures on the category screens.
MaxGestures == 6

\* The gesture does not reach deleteCategory on this target.
NotOffered == Ret("notOffered", None)

\* category-edit.tsx: more than one category of the same type is on the screen.
canDelete(categories, category) ==
    Cardinality({i \in 1..Len(categories) : categories[i].type = category.type}) > 1

\* categories.tsx: handleDelete goes on for a category that is not a default one.
notDefault(categories, category) == ~category.isDefault

\* Math.max(...categories.map((c) => c.order), -1)
maxOrder(categories) ==
    IF categories = <<>> THEN -1
    ELSE CHOOSE m \in {categories[i].order : i \in 1..Len(categories)} \cup {-1} :
            \A i \in 1..Len(categories) : categories[i].order <= m

\* What the add form of CategoryModal passes to saveCategory.
ModalCategory(categories, type) ==
    [name |-> "custom", icon |-> "more-horiz", color |-> "#C7CEEA", type |-> type,
     isDefault |-> FALSE, order |-> maxOrder(categories) + 1, customName |-> None]

\* The screens after initializeStorage on a fresh installation; each target
\* shows the list its own getCategories returns.
ScreenInit ==
    LET w == initializeStorageWeb(EmptyStorage, 0, 2)
        n == initializeStorageNative(EmptyStorage, EmptyDb, 0, 2, NoFault)
    IN /\ webAS = w.as
       /\ nativeAS = n.as
       /\ db = n.db
       /\ now = 2
       /\ idSeq = Len(DEFAULT_CATEGORIES)
       /\ steps = 0
       /\ last = [n |-> 0, op |-> "initializeStorage", arg |-> [migrated |-> n.migrated],
                  web |-> w.ret, native |-> n.ret, imported |-> FALSE, deleted |-> {},
                  pre |-> [webAS |-> EmptyStorage, nativeAS |-> EmptyStorage, db |-> EmptyDb,
                           now |-> 2, op |-> "none",
                           ret |-> [web |-> "void", native |-> "void"]]]
       /\ calc = NoCalc
       /\ sqlite = ClosedDatabase
       /\ callers = NotCalled
       /\ tasks = NotStarted

\* The categories the gestures are made on: one default expense category, the
\* default income categories, and the categories added on the screen.
ScreenCategoryIds ==
    {"cat_1", "cat_8", "cat_9", "cat_10", "cat_11"}
        \cup {generateId("cat", Len(DEFAULT_CATEGORIES) + k) : k \in 1..MaxGestures}

\* category-edit.tsx lists the category of this id and shows its delete button.
DeleteButton(categories, id) ==
    \E i \in 1..Len(categories) :
        categories[i].id = id /\ canDelete(categories, categories[i])

\* categories.tsx lists the category of this id and handleDelete goes on to delete it.
DeleteConfirmed(categories, id) ==
    \E i \in 1..Len(categories) :
        categories[i].id = id /\ notDefault(categories, categories[i])

\* category-edit.tsx: the delete button of CategoryModal, shown when canDelete;
\* on each target deleteCategory(id) is called if the button is there.
CategoryEditDelete ==
    /\ steps < MaxGestures
    /\ UNCHANGED otherVars
    /\ \E id \in ScreenCategoryIds :
        LET onWeb == DeleteButton(getCategories.web, id)
            onNative == DeleteButton(getCategories.native, id)
            w == IF onWeb THEN deleteCategoryWeb(webAS, id)
                 ELSE [as |-> webAS, ret |-> NotOffered]
            n == IF onNative THEN deleteCategoryNative(db, id)
                 ELSE [db |-> db, ret |-> NotOffered]
        IN /\ onWeb \/ onNative
           /\ webAS' = w.as
           /\ db' = n.db
           /\ Called("categoryEditDelete", id, w.ret, n.ret)
    /\ steps' = steps + 1
    /\ UNCHANGED <<nativeAS, now, idSeq>>

\* categories.tsx: handleDelete, confirmed; deleteCategory(id) is called if the
\* category is not a default one.
CategoriesScreenDelete ==
    /\ steps < MaxGestures
    /\ UNCHANGED otherVars
    /\ \E id \in ScreenCategoryIds :
        LET onWeb == DeleteConfirmed(getCategories.web, id)
            onNative == DeleteConfirmed(getCategories.native, id)
            w == IF onWeb THEN deleteCategoryWeb(webAS, id)
                 ELSE [as |-> webAS, ret |-> NotOffered]
            n == IF onNative THEN deleteCategoryNative(db, id)
                 ELSE [db |-> db, ret |-> NotOffered]
        IN /\ onWeb \/ onNative
           /\ webAS' = w.as
           /\ db' = n.db
           /\ Called("categoriesScreenDelete", id, w.ret, n.ret)
    /\ steps' = steps + 1
    /\ UNCHANGED <<nativeAS, now, idSeq>>

\* category-edit.tsx: the add form of CategoryModal, saved.
CategoryModalAdd ==
    /\ steps < MaxGestures
    /\ UNCHANGED otherVars
    /\ \E type \in {"expense", "income"} :
        LET id == generateId("cat", idSeq + 1)
            cw == ModalCategory(getCategories.web, type)
            cn == ModalCategory(getCategories.native, type)
            w == saveCategoryWeb(webAS, cw, id, now)
            n == saveCategoryNative(db, cn, id, now)
        IN /\ webAS' = w.as
           /\ db' = n.db
           /\ Called("categoryModalAdd", cw, w.ret, n.ret)
    /\ idSeq' = idSeq + 1
    /\ steps' = steps + 1
    /\ UNCHANGED <<nativeAS, now>>

ScreenNext ==
    \/ CategoryEditDelete
    \/ CategoriesScreenDelete
    \/ CategoryModalAdd

ScreenSpec == ScreenInit /\ [][ScreenNext]_vars

-----------------------------------------------------------------------------
(* calculations.ts *)
(* A date is abstracted to its month, the number of months since year 0 in  *)
(* the zone dayjs reads it in. A quotient is kept exact, as numerator and   *)
(* denominator; the rounding of floating point is left out.                 *)

\* Bound on the length of the transaction lists given to the calculations.
MaxLen == 3

\* dayjs(date).year()
dayjsYear(date) == date \div 12

\* dayjs(date).month(), 0 to 11
dayjsMonth(date) == date % 12

DateOf(year, month) == year * 12 + (month - 1)

Abs(x) == IF x < 0 THEN -x ELSE x

\* a / b for b # 0
Quotient(a, b) == [num |-> IF b < 0 THEN -a ELSE a, den |-> Abs(b)]

\* q * k
Times(q, k) == [num |-> q.num * k, den |-> q.den]

SameNumber(p, q) == p.num * q.den = q.num * p.den

\* The year of the date not compared.
filterTransactionsByMonthOfAnyYear(transactions, year, month) ==
    LET inMonth(t) == dayjsMonth(t.date) + 1 = month
    IN SelectSeq(transactions, inMonth)

filterTransactionsByMonth(transactions, year, month) ==
    LET inMonth(t) == dayjsYear(t.date) = year /\ dayjsMonth(t.date) + 1 = month
    IN SelectSeq(transactions, inMonth)

filterTransactionsByYear(transactions, year) ==
    LET inYear(t) == dayjsYear(t.date) = year
    IN SelectSeq(transactions, inYear)

\* .reduce((sum, t) => sum + t.amount, 0)
RECURSIVE SumAmounts(_, _)
SumAmounts(transactions, k) ==
    IF k = 0 THEN 0 ELSE SumAmounts(transactions, k - 1) + transactions[k].amount

\* .filter((t) => t.type === type).reduce((sum, t) => sum + t.amount, 0)
TotalOfType(transactions, type) ==
    LET ofType(t) == t.type = type
        filtered == SelectSeq(transactions, ofType)
    IN SumAmounts(filtered, Len(filtered))

\* Math.abs left out of the change percentage.
ChangeWithoutAbs(balance, previousBalance) ==
    Times(Quotient(balance - previousBalance, previousBalance), 100)

\* ((balance - previousBalance) / Math.abs(previousBalance)) * 100
Change(balance, previousBalance) ==
    Times(Quotient(balance - previousBalance, Abs(previousBalance)), 100)

\* An optional list argument: left out, or given.
NotGiven == [given |-> FALSE, list |-> <<>>]
Given(list) == [given |-> TRUE, list |-> list]

\* An optional number of a result: undefined, or a value.
Undefined == [defined |-> FALSE, value |-> 0]
Defined(value) == [defined |-> TRUE, value |-> value]

\* The summary of the transactions of a period, against an optional previous list.
Summary(period, previous) ==
    LET income == TotalOfType(period, "income")
        expense == TotalOfType(period, "expense")
        balance == income - expense
        previousBalance == TotalOfType(previous.list, "income")
                               - TotalOfType(previous.list, "expense")
    IN [income |-> income, expense |-> expense, balance |-> balance,
        previousBalance |-> IF previous.given THEN Defined(previousBalance) ELSE Undefined,
        changePercentage |-> IF previous.given /\ previousBalance # 0
                             THEN Defined(Change(balance, previousBalance))
                             ELSE Undefined]

calculateMonthlySummary(transactions, year, month, previousMonthTransactions) ==
    LET r == Summary(filterTransactionsByMonth(transactions, year, month),
                     previousMonthTransactions)
    IN [year |-> year, month |-> month, income |-> r.income, expense |-> r.expense,
        balance |-> r.balance, previousMonthBalance |-> r.previousBalance,
        changePercentage |-> r.changePercentage]

calculateYearlySummary(transactions, year, previousYearTransactions) ==
    LET r == Summary(filterTransactionsByYear(transactions, year), previousYearTransactions)
    IN [year |-> year, income |-> r.income, expense |-> r.expense,
        balance |-> r.balance, previousYearBalance |-> r.previousBalance,
        changePercentage |-> r.changePercentage]

\* if (t.categoryId): undefined and "" are falsy.
Truthy(categoryId) == categoryId # None /\ categoryId # ""

\* categoryMap.set(categoryId, (categoryMap.get(categoryId) || 0) + amount): a
\* Map keeps its keys in the order of their first insertion.
MapAdd(categoryMap, categoryId, amount) ==
    IF \E i \in 1..Len(categoryMap) : categoryMap[i].categoryId = categoryId
    THEN [i \in 1..Len(categoryMap) |->
             IF categoryMap[i].categoryId = categoryId
             THEN [categoryMap[i] EXCEPT !.amount = @ + amount]
             ELSE categoryMap[i]]
    ELSE Append(categoryMap, [categoryId |-> categoryId, amount |-> amount])

\* filtered.forEach((t) => { if (t.categoryId) categoryMap.set(...) }), up to index k.
RECURSIVE CategoryMap(_, _)
CategoryMap(filtered, k) ==
    IF k = 0 THEN <<>>
    ELSE LET categoryMap == CategoryMap(filtered, k - 1)
             t == filtered[k]
         IN IF Truthy(t.categoryId) THEN MapAdd(categoryMap, t.categoryId, t.amount)
            ELSE categoryMap

\* categories.find((c) => c.id === categoryId): the index of the first match, 0 if none.
FindCategory(categories, categoryId) ==
    IF \E j \in 1..Len(categories) : categories[j].id = categoryId
    THEN CHOOSE j \in 1..Len(categories) :
             /\ categories[j].id = categoryId
             /\ \A h \in 1..(j - 1) : categories[h].id # categoryId
    ELSE 0

\* categoryMap.forEach(...): one entry pushed per key that categories.find finds.
RECURSIVE CategoryEntries(_, _, _, _)
CategoryEntries(categoryMap, categories, total, k) ==
    IF k = 0 THEN <<>>
    ELSE LET result == CategoryEntries(categoryMap, categories, total, k - 1)
             j == FindCategory(categories, categoryMap[k].categoryId)
         IN IF j = 0 THEN result
            ELSE Append(result,
                        [categoryId |-> categoryMap[k].categoryId,
                         categoryName |-> categories[j].name,
                         categoryIcon |-> categories[j].icon,
                         categoryColor |-> categories[j].color,
                         amount |-> categoryMap[k].amount,
                         percentage |-> Times(Quotient(categoryMap[k].amount, total), 100)])

\* The sort left out.
NotSorted(result) == result

\* result.sort((a, b) => b.amount - a.amount): Array.prototype.sort is stable.
SortByAmount(result) ==
    LET before(i, j) == \/ result[i].amount > result[j].amount
                        \/ result[i].amount = result[j].amount /\ i < j
        rank(i) == 1 + Cardinality({j \in 1..Len(result) : before(j, i)})
    IN [p \in 1..Len(result) |-> result[CHOOSE i \in 1..Len(result) : rank(i) = p]]

\* The body shared by calculateCategoryExpenses and calculateCategoryData.
CategoryBreakdown(transactions, categories, type) ==
    LET ofType(t) == t.type = type
        filtered == SelectSeq(transactions, ofType)
        total == SumAmounts(filtered, Len(filtered))
        categoryMap == CategoryMap(filtered, Len(filtered))
    IN IF total = 0 THEN <<>>
       ELSE SortByAmount(CategoryEntries(categoryMap, categories, total, Len(categoryMap)))

calculateCategoryExpenses(transactions, categories) ==
    CategoryBreakdown(transactions, categories, "expense")

calculateCategoryData(transactions, categories, type) ==
    CategoryBreakdown(transactions, categories, type)

\* for (let month = 1; month <= 12; month++) result.push({month, income, expense, balance})
calculateMonthlyData(transactions, year) ==
    [month \in 1..12 |->
        LET monthTransactions == filterTransactionsByMonth(transactions, year, month)
            income == TotalOfType(monthTransactions, "income")
            expense == TotalOfType(monthTransactions, "expense")
        IN [month |-> month, income |-> income, expense |-> expense,
            balance |-> income - expense]]

\* percentage.toFixed(1) of a fraction: the integer n nearest to |x| * 10, the
\* larger one of two equally near, written with one digit after the point and
\* with "-" in front when x < 0.
toFixed1(x) ==
    LET n == (2 * 10 * Abs(x.num) + x.den) \div (2 * x.den)
    IN (IF x.num < 0 THEN "-" ELSE "") \o ToString(n \div 10) \o "." \o ToString(n % 10)

formatPercentage(percentage) ==
    LET sign == IF percentage.num > 0 THEN "+" ELSE ""
    IN sign \o toFixed1(percentage) \o "%"

CalcTransaction(id, type, amount, categoryId, date) ==
    [id |-> id, type |-> type, amount |-> amount, categoryId |-> categoryId, date |-> date]

CalcTransactionPool ==
    { CalcTransaction("t1", "income", 30, "c_salary", DateOf(2026, 1)),
      CalcTransaction("t2", "expense", 5, "c_food", DateOf(2026, 1)),
      CalcTransaction("t3", "expense", 3, "c_transport", DateOf(2026, 1)),
      CalcTransaction("t4", "expense", 2, None, DateOf(2026, 2)),
      CalcTransaction("t5", "expense", 40, "c_gone", DateOf(2026, 12)),
      CalcTransaction("t6", "income", 25, None, DateOf(2025, 12)),
      CalcTransaction("t7", "expense", 0, "c_food", DateOf(2025, 12)) }

\* The lists of at most MaxLen transactions of the pool.
CalcTransactionLists ==
    UNION {[1..n -> CalcTransactionPool] : n \in 0..MaxLen}

\* previousMonthTransactions: not given, or a list.
CalcPreviousLists ==
    {NotGiven} \cup {Given(list) : list \in UNION {[1..n -> CalcTransactionPool] : n \in 0..2}}

CalcYears == {2025, 2026}

CalcMonths == {1, 2, 12}

CalcCategory(id, name) == [id |-> id, name |-> name, icon |-> "circle", color |-> "#888888"]

\* categories: all the categories of the pool but c_gone; the same without
\* c_transport; two categories of one id; none.
CalcCategoryLists ==
    { <<CalcCategory("c_salary", "Salary"), CalcCategory("c_transport", "Transport"),
        CalcCategory("c_food", "Food")>>,
      <<CalcCategory("c_food", "Food"), CalcCategory("c_salary", "Salary")>>,
      <<CalcCategory("c_food", "Food"), CalcCategory("c_food", "Meals")>>,
      <<>> }

\* percentage: hundredths whose double is not half-way between two results
\* of toFixed(1), or is so exactly (0.25, -0.75).
CalcPercentages ==
    {Quotient(h, 100) : h \in {1050, -530, 0, 4, -4, 25, -75, 1234, 9996, -10000}}

CalcInit ==
    /\ calc = NoCalc
    /\ sqlite = ClosedDatabase
    /\ callers = NotCalled
    /\ tasks = NotStarted
    /\ webAS = EmptyStorage
    /\ nativeAS = EmptyStorage
    /\ db = EmptyDb
    /\ now = 2
    /\ idSeq = 0
    /\ steps = 0
    /\ last = [n |-> 0, op |-> "none", arg |-> None, web |-> Void, native |-> Void,
               imported |-> FALSE, deleted |-> {},
               pre |-> [webAS |-> EmptyStorage, nativeAS |-> EmptyStorage, db |-> EmptyDb,
                        now |-> 2, op |-> "none", ret |-> [web |-> "void", native |-> "void"]]]

\* The variables the calculations do not touch.
notCalcVars == <<webAS, nativeAS, db, now, idSeq, steps, last, sqlite, callers, tasks>>

CalculateMonthlySummary ==
    /\ calc.op = "none"
    /\ \E transactions \in CalcTransactionLists, year \in CalcYears, month \in CalcMonths,
          previous \in CalcPreviousLists :
        calc' = [op |-> "calculateMonthlySummary",
                 arg |-> [transactions |-> transactions, year |-> year, month |-> month,
                          previous |-> previous],
                 ret |-> calculateMonthlySummary(transactions, year, month, previous)]
    /\ UNCHANGED notCalcVars

CalculateYearlySummary ==
    /\ calc.op = "none"
    /\ \E transactions \in CalcTransactionLists, year \in CalcYears,
          previous \in CalcPreviousLists :
        calc' = [op |-> "calculateYearlySummary",
                 arg |-> [transactions |-> transactions, year |-> year,
                          previous |-> previous],
                 ret |-> calculateYearlySummary(transactions, year, previous)]
    /\ UNCHANGED notCalcVars

CalculateCategoryExpenses ==
    /\ calc.op = "none"
    /\ \E transactions \in CalcTransactionLists, categories \in CalcCategoryLists :
        calc' = [op |-> "calculateCategoryExpenses",
                 arg |-> [transactions |-> transactions, categories |-> categories,
                          type |-> "expense"],
                 ret |-> calculateCategoryExpenses(transactions, categories)]
    /\ UNCHANGED notCalcVars

CalculateCategoryData ==
    /\ calc.op = "none"
    /\ \E transactions \in CalcTransactionLists, categories \in CalcCategoryLists,
          type \in {"income", "expense"} :
        calc' = [op |-> "calculateCategoryData",
                 arg |-> [transactions |-> transactions, categories |-> categories,
                          type |-> type],
                 ret |-> calculateCategoryData(transactions, categories, type)]
    /\ UNCHANGED notCalcVars

CalculateMonthlyData ==
    /\ calc.op = "none"
    /\ \E transactions \in CalcTransactionLists, year \in CalcYears :
        calc' = [op |-> "calculateMonthlyData",
                 arg |-> [transactions |-> transactions, year |-> year],
                 ret |-> calculateMonthlyData(transactions, year)]
    /\ UNCHANGED notCalcVars

FormatPercentage ==
    /\ calc.op = "none"
    /\ \E percentage \in CalcPercentages :
        calc' = [op |-> "formatPercentage", arg |-> percentage,
                 ret |-> formatPercentage(percentage)]
    /\ UNCHANGED notCalcVars

CalcNext ==
    \/ CalculateMonthlySummary
    \/ CalculateYearlySummary
    \/ CalculateCategoryExpenses
    \/ CalculateCategoryData
    \/ CalculateMonthlyData
    \/ FormatPercentage

CalcSpec == CalcInit /\ [][CalcNext]_vars

-----------------------------------------------------------------------------
(* Native database module: getDatabase *)

\* The module before the first getDatabase, no call started: on a first launch
\* the database file has no tables, on a later one it has them.
DbInit ==
    /\ \E tables \in BOOLEAN : sqlite = [ClosedDatabase EXCEPT !.tables = tables]
    /\ callers = NotCalled
    /\ tasks = NotStarted
    /\ calc = NoCalc
    /\ webAS = EmptyStorage
    /\ nativeAS = EmptyStorage
    /\ db = EmptyDb
    /\ now = 2
    /\ idSeq = 0
    /\ steps = 0
    /\ last = [n |-> 0, op |-> "none", arg |-> None, web |-> Void, native |-> Void,
               imported |-> FALSE, deleted |-> {},
               pre |-> [webAS |-> EmptyStorage, nativeAS |-> EmptyStorage, db |-> EmptyDb,
                        now |-> 2, op |-> "none", ret |-> [web |-> "void", native |-> "void"]]]

notDbVars == <<webAS, nativeAS, db, now, idSeq, steps, last, calc, tasks>>

\* A caller enters getDatabase: if (db) return db; otherwise
\* SQLite.openDatabaseAsync is called and the caller waits for it.
GetDatabase ==
    /\ \E c \in Callers :
        /\ callers[c].pc = "idle"
        /\ IF sqlite.db # NoConnection
           THEN /\ callers' = [callers EXCEPT ![c] = [@ EXCEPT !.pc = "returned",
                                                               !.got = sqlite.db,
                                                               !.ready = sqlite.tables]]
                /\ UNCHANGED sqlite
           ELSE /\ callers' = [callers EXCEPT ![c] = [@ EXCEPT !.pc = "openDatabaseAsync",
                                                               !.opening = sqlite.opened + 1]]
                /\ sqlite' = [sqlite EXCEPT !.opened = @ + 1]
    /\ UNCHANGED notDbVars

\* openDatabaseAsync resolves: db = <the connection>, then initializeSchema(db)
\* is called and the caller waits for it.
OpenDatabaseResolved ==
    /\ \E c \in Callers :
        /\ callers[c].pc = "openDatabaseAsync"
        /\ sqlite' = [sqlite EXCEPT !.db = callers[c].opening, !.schemaRuns = @ + 1]
        /\ callers' = [callers EXCEPT ![c] = [@ EXCEPT !.pc = "initializeSchema"]]
    /\ UNCHANGED notDbVars

\* initializeSchema resolves, the tables exist: return db, the module variable
\* as it is now.
InitializeSchemaResolved ==
    /\ \E c \in Callers :
        /\ callers[c].pc = "initializeSchema"
        /\ callers' = [callers EXCEPT ![c] = [@ EXCEPT !.pc = "returned", !.got = sqlite.db,
                                                      !.ready = TRUE]]
    /\ sqlite' = [sqlite EXCEPT !.tables = TRUE]
    /\ UNCHANGED notDbVars

\* initializeSchema rejects (a statement of it or of runMigrations fails):
\* getDatabase rejects with it, db keeps the connection it was assigned.
InitializeSchemaRejected ==
    /\ \E c \in Callers :
        /\ callers[c].pc = "initializeSchema"
        /\ callers' = [callers EXCEPT ![c] = [@ EXCEPT !.pc = "threw"]]
    /\ UNCHANGED sqlite
    /\ UNCHANGED notDbVars

DbNext ==
    \/ GetDatabase
    \/ OpenDatabaseResolved
    \/ InitializeSchemaResolved
    \/ InitializeSchemaRejected

DbSpec == DbInit /\ [][DbNext]_vars

-----------------------------------------------------------------------------
(* The facade when AsyncStorage rejects a call or no connection is obtained *)

\* Bound on the number of calls during which something can go wrong.
MaxCalls == 2

\* The first getItem of the call rejects; the k-th setItem / removeItem rejects.
ReadFault == <<"getItem", 1>>
WriteFault(k) == <<"setItem", k>>

StorageFaultInputs == {NoFault, ReadFault, WriteFault(1), WriteFault(2)}

\* The collection as the read half of a call gets it: getTransactionsWeb and
\* getCategoriesWeb catch a rejected getItem like a failed JSON.parse, return [].
SeenBy(as, key, fault) ==
    IF Hits(fault, "getItem", 1) THEN [as EXCEPT ![key] = NotJson] ELSE as

\* The call went as far as its setItem: it did not return null or false before.
ReachedSetItem(r) ==
    ~(r.ret.kind = "null" \/ (r.ret.kind = "bool" /\ r.ret.val = FALSE))

\* try { read; ...; await AsyncStorage.setItem(...) } catch (error) { throw error }
\* with r the outcome of the call on the storage its read half saw.
WebUnder(as, r, fault) ==
    IF ~ReachedSetItem(r) THEN [as |-> as, ret |-> r.ret]
    ELSE IF Hits(fault, "setItem", 1) THEN [as |-> as, ret |-> Throw("setItem")]
    ELSE [as |-> r.as, ret |-> r.ret]

\* initializeStorageWeb: getItem(INITIALIZED), then three setItem calls.
initializeStorageWebUnder(as, ids, timestamp, fault) ==
    LET r == initializeStorageWeb(as, ids, timestamp)
        w1 == [as EXCEPT !.CATEGORIES = r.as.CATEGORIES]
        w2 == [w1 EXCEPT !.TRANSACTIONS = r.as.TRANSACTIONS]
    IN IF Hits(fault, "getItem", 1) THEN [as |-> as, ret |-> Throw("getItem"), seeded |-> FALSE]
       ELSE IF ~r.seeded THEN r
       ELSE IF Hits(fault, "setItem", 1) THEN [as |-> as, ret |-> Throw("setItem"), seeded |-> TRUE]
       ELSE IF Hits(fault, "setItem", 2) THEN [as |-> w1, ret |-> Throw("setItem"), seeded |-> TRUE]
       ELSE IF Hits(fault, "setItem", 3) THEN [as |-> w2, ret |-> Throw("setItem"), seeded |-> TRUE]
       ELSE r

\* clearAllDataWeb: four removeItem calls.
clearAllDataWebUnder(as, fault) ==
    LET r1 == [as EXCEPT !.TRANSACTIONS = Absent]
        r2 == [r1 EXCEPT !.CATEGORIES = Absent]
        r3 == [r2 EXCEPT !.THEME_MODE = NoFlag]
    IN IF Hits(fault, "setItem", 1) THEN [as |-> as, ret |-> Throw("removeItem")]
       ELSE IF Hits(fault, "setItem", 2) THEN [as |-> r1, ret |-> Throw("removeItem")]
       ELSE IF Hits(fault, "setItem", 3) THEN [as |-> r2, ret |-> Throw("removeItem")]
       ELSE IF Hits(fault, "setItem", 4) THEN [as |-> r3, ret |-> Throw("removeItem")]
       ELSE clearAllDataWeb(as)

\* getThemeModeWeb when getItem(THEME_MODE) may reject: catch, return "system".
getThemeModeWebUnder(as, fault) ==
    IF Hits(fault, "getItem", 1) THEN "system" ELSE getThemeModeWeb(as)

\* if (!db) ...: what each function of the relational backend does with a null
\* connection.
NoDatabase(op) ==
    CASE op \in {"saveTransaction", "saveCategory"} -> Throw("Database not available")
      [] op \in {"updateTransaction", "updateCategory"} -> Null
      [] op \in {"deleteTransaction", "deleteCategory"} -> Ret("bool", FALSE)
      [] op \in {"updateCategoryOrders", "clearAllData", "saveThemeMode",
                 "initializeStorage"} -> Void
      [] op \in {"getTransactions", "getCategories"} -> Ret("list", <<>>)
      [] op = "getThemeMode" -> Ret("mode", "system")

\* const db = await getDatabase(); if (!db) ...; otherwise the call goes on.
NativeUnder(d, op, r, available) ==
    IF available THEN [db |-> r.db, ret |-> r.ret] ELSE [db |-> d, ret |-> NoDatabase(op)]

\* Both stores after initializeStorage and one saveTransaction.
FaultInit ==
    LET w == initializeStorageWeb(EmptyStorage, 0, 1)
        n == initializeStorageNative(EmptyStorage, EmptyDb, 0, 1, NoFault)
        transaction == [type |-> "expense", amount |-> 800, categoryId |-> "cat_1",
                        date |-> 1, memo |-> None]
        id == generateId("txn", Len(DEFAULT_CATEGORIES) + 1)
    IN /\ webAS = saveTransactionWeb(w.as, transaction, id, 1).as
       /\ nativeAS = n.as
       /\ db = saveTransactionNative(n.db, transaction, id, 1).db
       /\ now = 2
       /\ idSeq = Len(DEFAULT_CATEGORIES) + 1
       /\ steps = 0
       /\ last = [n |-> 0, op |-> "none", arg |-> None, web |-> Void, native |-> Void,
                  imported |-> FALSE, deleted |-> {},
                  pre |-> [webAS |-> webAS, nativeAS |-> nativeAS, db |-> db,
                           now |-> 2, op |-> "none",
                           ret |-> [web |-> "void", native |-> "void"]]]
       /\ calc = NoCalc
       /\ sqlite = ClosedDatabase
       /\ callers = NotCalled
       /\ tasks = NotStarted

\* The argument of a call together with what went wrong during it.
Under(arg, fault, available) == [call |-> arg, fault |-> fault, available |-> available]

FaultyInitializeStorage ==
    /\ steps < MaxCalls
    /\ UNCHANGED otherVars
    /\ \E fault \in StorageFaultInputs \cup {WriteFault(3)}, available \in BOOLEAN :
        LET w == initializeStorageWebUnder(webAS, idSeq, now, fault)
            i == initializeStorageNative(nativeAS, db, idSeq, now, NoFault)
            n == NativeUnder(db, "initializeStorage", i, available)
        IN /\ webAS' = w.as
           /\ nativeAS' = IF available THEN i.as ELSE nativeAS
           /\ db' = n.db
           /\ idSeq' = IF w.seeded \/ (available /\ i.seeded)
                       THEN idSeq + Len(DEFAULT_CATEGORIES) ELSE idSeq
           /\ Called("initializeStorage", Under(None, fault, available), w.ret, n.ret)
    /\ steps' = steps + 1
    /\ UNCHANGED now

FaultySaveTransaction ==
    /\ steps < MaxCalls
    /\ UNCHANGED otherVars
    /\ \E transaction \in TransactionInputs, fault \in StorageFaultInputs, available \in BOOLEAN :
        LET id == generateId("txn", idSeq + 1)
            seen == SeenBy(webAS, "TRANSACTIONS", fault)
            w == WebUnder(webAS, saveTransactionWeb(seen, transaction, id, now), fault)
            n == NativeUnder(db, "saveTransaction",
                             saveTransactionNative(db, transaction, id, now), available)
        IN /\ webAS' = w.as
           /\ db' = n.db
           /\ Called("saveTransaction", Under(transaction, fault, available), w.ret, n.ret)
    /\ idSeq' = idSeq + 1
    /\ steps' = steps + 1
    /\ UNCHANGED <<nativeAS, now>>

FaultyUpdateTransaction ==
    /\ steps < MaxCalls
    /\ UNCHANGED otherVars
    /\ \E id \in TransactionIdInputs, updates \in TransactionUpdateInputs,
          fault \in StorageFaultInputs, available \in BOOLEAN :
        LET seen == SeenBy(webAS, "TRANSACTIONS", fault)
            w == WebUnder(webAS, updateTransactionWeb(seen, id, updates, now), fault)
            n == NativeUnder(db, "updateTransaction",
                             updateTransactionNative(db, id, updates, now), available)
        IN /\ webAS' = w.as
           /\ db' = n.db
           /\ Called("updateTransaction",
                     Under([id |-> id, updates |-> updates], fault, available), w.ret, n.ret)
    /\ steps' = steps + 1
    /\ UNCHANGED <<nativeAS, now, idSeq>>

FaultyDeleteTransaction ==
    /\ steps < MaxCalls
    /\ UNCHANGED otherVars
    /\ \E id \in TransactionIdInputs, fault \in StorageFaultInputs, available \in BOOLEAN :
        LET seen == SeenBy(webAS, "TRANSACTIONS", fault)
            w == WebUnder(webAS, deleteTransactionWeb(seen, id), fault)
            n == NativeUnder(db, "deleteTransaction", deleteTransactionNative(db, id), available)
        IN /\ webAS' = w.as
           /\ db' = n.db
           /\ Called("deleteTransaction", Under(id, fault, available), w.ret, n.ret)
    /\ steps' = steps + 1
    /\ UNCHANGED <<nativeAS, now, idSeq>>

FaultySaveCategory ==
    /\ steps < MaxCalls
    /\ UNCHANGED otherVars
    /\ \E category \in CategoryInputs, fault \in StorageFaultInputs, available \in BOOLEAN :
        LET id == generateId("cat", idSeq + 1)
            seen == SeenBy(webAS, "CATEGORIES", fault)
            w == WebUnder(webAS, saveCategoryWeb(seen, category, id, now), fault)
            n == NativeUnder(db, "saveCategory",
                             saveCategoryNative(db, category, id, now), available)
        IN /\ webAS' = w.as
           /\ db' = n.db
           /\ Called("saveCategory", Under(category, fault, available), w.ret, n.ret)
    /\ idSeq' = idSeq + 1
    /\ steps' = steps + 1
    /\ UNCHANGED <<nativeAS, now>>

FaultyUpdateCategory ==
    /\ steps < MaxCalls
    /\ UNCHANGED otherVars
    /\ \E id \in CategoryIdInputs, updates \in CategoryUpdateInputs,
          fault \in StorageFaultInputs, available \in BOOLEAN :
        LET seen == SeenBy(webAS, "CATEGORIES", fault)
            w == WebUnder(webAS, updateCategoryWeb(seen, id, updates, now), fault)
            n == NativeUnder(db, "updateCategory",
                             updateCategoryNative(db, id, updates, now), available)
        IN /\ webAS' = w.as
           /\ db' = n.db
           /\ Called("updateCategory",
                     Under([id |-> id, updates |-> updates], fault, available), w.ret, n.ret)
    /\ steps' = steps + 1
    /\ UNCHANGED <<nativeAS, now, idSeq>>

FaultyDeleteCategory ==
    /\ steps < MaxCalls
    /\ UNCHANGED otherVars
    /\ \E id \in CategoryIdInputs, fault \in StorageFaultInputs, available \in BOOLEAN :
        LET seen == SeenBy(webAS, "CATEGORIES", fault)
            w == WebUnder(webAS, deleteCategoryWeb(seen, id), fault)
            n == NativeUnder(db, "deleteCategory", deleteCategoryNative(db, id), available)
        IN /\ webAS' = w.as
           /\ db' = n.db
           /\ Called("deleteCategory", Under(id, fault, available), w.ret, n.ret)
    /\ steps' = steps + 1
    /\ UNCHANGED <<nativeAS, now, idSeq>>

FaultyUpdateCategoryOrders ==
    /\ steps < MaxCalls
    /\ UNCHANGED otherVars
    /\ \E categoryOrders \in CategoryOrderInputs, fault \in StorageFaultInputs,
          available \in BOOLEAN :
        LET seen == SeenBy(webAS, "CATEGORIES", fault)
            w == WebUnder(webAS, updateCategoryOrdersWeb(seen, categoryOrders, now), fault)
            n == NativeUnder(db, "updateCategoryOrders",
                             updateCategoryOrdersNative(db, categoryOrders, now), available)
        IN /\ webAS' = w.as
           /\ db' = n.db
           /\ Called("updateCategoryOrders", Under(categoryOrders, fault, available),
                     w.ret, n.ret)
    /\ steps' = steps + 1
    /\ UNCHANGED <<nativeAS, now, idSeq>>

FaultyClearAllData ==
    /\ steps < MaxCalls
    /\ UNCHANGED otherVars
    /\ \E fault \in StorageFaultInputs \ {ReadFault}, available \in BOOLEAN :
        LET w == clearAllDataWebUnder(webAS, fault)
            n == NativeUnder(db, "clearAllData", clearAllDataNative(db), available)
        IN /\ webAS' = w.as
           /\ db' = n.db
           /\ Called("clearAllData", Under(None, fault, available), w.ret, n.ret)
    /\ steps' = steps + 1
    /\ UNCHANGED <<nativeAS, now, idSeq>>

FaultySaveThemeMode ==
    /\ steps < MaxCalls
    /\ UNCHANGED otherVars
    /\ \E mode \in ThemeModeInputs, fault \in {NoFault, WriteFault(1)}, available \in BOOLEAN :
        LET w == WebUnder(webAS, saveThemeModeWeb(webAS, mode), fault)
            n == NativeUnder(db, "saveThemeMode", saveThemeModeNative(db, mode), available)
        IN /\ webAS' = w.as
           /\ db' = n.db
           /\ Called("saveThemeMode", Under(mode, fault, available), w.ret, n.ret)
    /\ steps' = steps + 1
    /\ UNCHANGED <<nativeAS, now, idSeq>>

FaultNext ==
    \/ FaultyInitializeStorage
    \/ FaultySaveTransaction
    \/ FaultyUpdateTransaction
    \/ FaultyDeleteTransaction
    \/ FaultySaveCategory
    \/ FaultyUpdateCategory
    \/ FaultyDeleteCategory
    \/ FaultyUpdateCategoryOrders
    \/ FaultyClearAllData
    \/ FaultySaveThemeMode

FaultSpec == FaultInit /\ [][FaultNext]_vars

-----------------------------------------------------------------------------
(* Facade calls that overlap: an action runs one call from an await to the next *)

\* The variables an overlapping call does not touch.
notTaskVars == <<now, last, calc, sqlite, callers>>

\* Both stores empty, nothing initialized, no call started.
RaceInit ==
    /\ calc = NoCalc
    /\ sqlite = ClosedDatabase
    /\ callers = NotCalled
    /\ tasks = NotStarted
    /\ webAS = EmptyStorage
    /\ nativeAS = EmptyStorage
    /\ db = EmptyDb
    /\ now = 2
    /\ idSeq = 0
    /\ steps = 0
    /\ last = [n |-> 0, op |-> "none", arg |-> None, web |-> Void, native |-> Void,
               imported |-> FALSE, deleted |-> {},
               pre |-> [webAS |-> EmptyStorage, nativeAS |-> EmptyStorage, db |-> EmptyDb]]

\* A read-modify-write that is one step: it works on the storage as it is now.
CurrentStorage(as, seen) == as

\* The storage as a call holds it after its getItem(TRANSACTIONS) resolved.
SeenStorage(as, seen) == [as EXCEPT !.TRANSACTIONS = seen]

Resume(t, pc, fields) ==
    tasks' = [tasks EXCEPT ![t] = [f \in DOMAIN tasks[t] |->
                 IF f = "pc" THEN pc
                 ELSE IF f \in DOMAIN fields THEN fields[f]
                 ELSE tasks[t][f]]]

\* saveTransactionWeb up to the await of getItem(TRANSACTIONS) in getTransactionsWeb.
SaveTransactionGetItem ==
    /\ \E t \in Tasks, transaction \in TransactionInputs :
        /\ tasks[t].pc = "idle"
        /\ Resume(t, "setItem", [op |-> "saveTransaction", arg |-> transaction,
                                 seen |-> webAS.TRANSACTIONS, readAt |-> steps + 1])
    /\ steps' = steps + 1
    /\ UNCHANGED <<webAS, nativeAS, db, idSeq>>
    /\ UNCHANGED notTaskVars

\* saveTransactionWeb from there: parse and sort what was read, push, setItem, return.
SaveTransactionSetItem ==
    /\ \E t \in Tasks :
        /\ tasks[t].op = "saveTransaction"
        /\ tasks[t].pc = "setItem"
        /\ LET r == saveTransactionWeb(SeenStorage(webAS, tasks[t].seen), tasks[t].arg,
                                       generateId("txn", idSeq + 1), now)
           IN /\ webAS' = r.as
              /\ Resume(t, "returned", [id |-> generateId("txn", idSeq + 1),
                                        wroteAt |-> steps + 1, ret |-> r.ret])
    /\ idSeq' = idSeq + 1
    /\ steps' = steps + 1
    /\ UNCHANGED <<nativeAS, db>>
    /\ UNCHANGED notTaskVars

\* initializeStorageWeb up to the await of getItem(INITIALIZED), and its test.
InitializeWebGetItem ==
    /\ \E t \in Tasks :
        /\ tasks[t].pc = "idle"
        /\ Resume(t, IF IsTrue(webAS.INITIALIZED) THEN "returned" ELSE "setCategories",
                  [op |-> "initializeStorageWeb", readAt |-> steps + 1])
    /\ steps' = steps + 1
    /\ UNCHANGED <<webAS, nativeAS, db, idSeq>>
    /\ UNCHANGED notTaskVars

\* setItem(CATEGORIES, the defaults with fresh ids)
InitializeWebSetCategories ==
    /\ \E t \in Tasks :
        /\ tasks[t].op = "initializeStorageWeb"
        /\ tasks[t].pc = "setCategories"
        /\ Resume(t, "setTransactions", << >>)
    /\ webAS' = [webAS EXCEPT !.CATEGORIES = Json(DefaultCategoryEntities(idSeq + 1, now))]
    /\ idSeq' = idSeq + Len(DEFAULT_CATEGORIES)
    /\ steps' = steps + 1
    /\ UNCHANGED <<nativeAS, db>>
    /\ UNCHANGED notTaskVars

\* setItem(TRANSACTIONS, "[]")
InitializeWebSetTransactions ==
    /\ \E t \in Tasks :
        /\ tasks[t].op = "initializeStorageWeb"
        /\ tasks[t].pc = "setTransactions"
        /\ Resume(t, "setInitialized", [wroteAt |-> steps + 1])
    /\ webAS' = [webAS EXCEPT !.TRANSACTIONS = Json(<<>>)]
    /\ steps' = steps + 1
    /\ UNCHANGED <<nativeAS, db, idSeq>>
    /\ UNCHANGED notTaskVars

\* setItem(INITIALIZED, "true"), return
InitializeWebSetInitialized ==
    /\ \E t \in Tasks :
        /\ tasks[t].op = "initializeStorageWeb"
        /\ tasks[t].pc = "setInitialized"
        /\ Resume(t, "returned", << >>)
    /\ webAS' = [webAS EXCEPT !.INITIALIZED = Str("true")]
    /\ steps' = steps + 1
    /\ UNCHANGED <<nativeAS, db, idSeq>>
    /\ UNCHANGED notTaskVars

\* initializeStorageNative up to the await of SELECT COUNT(*) FROM categories, and its test.
InitializeNativeCount ==
    /\ \E t \in Tasks :
        /\ tasks[t].pc = "idle"
        /\ LET m == migrateFromAsyncStorage(nativeAS, db, NoFault)
           IN /\ nativeAS' = m.as
              /\ db' = m.db
              /\ Resume(t, IF Len(m.db.categories) = 0 THEN "insert" ELSE "returned",
                        [op |-> "initializeStorageNative", readAt |-> steps + 1])
    /\ steps' = steps + 1
    /\ UNCHANGED <<webAS, idSeq>>
    /\ UNCHANGED notTaskVars

\* the INSERT INTO categories of each default with a fresh id, return
InitializeNativeInsert ==
    /\ \E t \in Tasks :
        /\ tasks[t].op = "initializeStorageNative"
        /\ tasks[t].pc = "insert"
        /\ LET seed == InsertAll(db.categories, DefaultCategoryRows(idSeq + 1, now))
           IN /\ db' = [db EXCEPT !.categories = seed.table]
              /\ Resume(t, "returned",
                        [ret |-> IF seed.ok THEN Void ELSE Throw("constraint")])
    /\ idSeq' = idSeq + Len(DEFAULT_CATEGORIES)
    /\ steps' = steps + 1
    /\ UNCHANGED <<webAS, nativeAS>>
    /\ UNCHANGED notTaskVars

RaceNext ==
    \/ SaveTransactionGetItem
    \/ SaveTransactionSetItem
    \/ InitializeWebGetItem
    \/ InitializeWebSetCategories
    \/ InitializeWebSetTransactions
    \/ InitializeWebSetInitialized
    \/ InitializeNativeCount
    \/ InitializeNativeInsert

RaceSpec == RaceInit /\ [][RaceNext]_vars

-----------------------------------------------------------------------------
(* Properties *)

\* The last call was initializeStorage, and so was the call before it.
InitializedTwice == last.op = "initializeStorage" /\ last.pre.op = "initializeStorage"

\* C1: once initializeStorage has completed successfully (it returned, and on
\* the native target the migration is done), a second initializeStorage right
\* after it is a no-op: getCategories returns the same ids, and as many, as
\* before the second call.
C1_InitializeTwice ==
    InitializedTwice =>
        /\ last.pre.ret.web = "void" =>
              Ids(getCategories.web) = Ids(CategoriesBefore.web)
        /\ (last.pre.ret.native = "void" /\ IsTrue(last.pre.nativeAS.MIGRATED)) =>
              Ids(getCategories.native) = Ids(CategoriesBefore.native)

C1_Witness ==
    /\ InitializedTwice
    /\ last.pre.ret.web = "void"
    /\ last.pre.ret.native = "void"
    /\ IsTrue(last.pre.nativeAS.MIGRATED)
    /\ Len(getCategories.web) = Len(DEFAULT_CATEGORIES)
    /\ Len(getCategories.native) > 0

\* C2: after saveTransaction(p) returns entity e, getTransactions holds exactly
\* one entity with e.id, it is e, it has the type, amount, categoryId, date and
\* memo of p, its id is a generated one, createdAt = updatedAt = the time of the
\* call, and the list is one longer than before.
C2_SaveThenList ==
    last.op = "saveTransaction" =>
        \A t \in Targets :
            LET e == last[t].val
                p == last.arg
                list == getTransactions[t]
            IN last[t].kind = "entity" =>
                /\ Count(Ids(list), e.id) = 1
                /\ \E i \in 1..Len(list) : list[i] = e
                /\ e.type = p.type /\ e.amount = p.amount /\ e.categoryId = p.categoryId
                /\ e.date = p.date /\ e.memo = p.memo
                /\ e.id \in {generateId("txn", k) : k \in 1..idSeq}
                /\ e.createdAt = last.pre.now /\ e.updatedAt = last.pre.now
                /\ Len(list) = Len(TransactionsBefore[t]) + 1

C2_Witness ==
    /\ last.op = "saveTransaction"
    /\ \A t \in Targets : last[t].kind = "entity" /\ Len(getTransactions[t]) >= 2
    /\ last.arg.memo # None

TextFields == {"type", "categoryId", "memo", "name", "icon", "color", "customName"}

\* No field of the partial is given as undefined.
DefinedUpdates(updates) == \A k \in DOMAIN updates \cap TextFields : updates[k] # None

\* The record of this id has become new = ret.val: id and createdAt kept, the
\* named fields set, the others kept, updatedAt moved to the time of the call;
\* the other records are as they were.
UpdatedInPlace(before, after, ret, id, updates, timestamp) ==
    /\ ret.kind = "entity"
    /\ \E i \in 1..Len(before) :
        /\ before[i].id = id
        /\ LET old == before[i]
               new == ret.val
           IN /\ new.id = old.id
              /\ new.createdAt = old.createdAt
              /\ \A k \in DOMAIN updates : new[k] = updates[k]
              /\ \A k \in DOMAIN old \ (DOMAIN updates \cup {"updatedAt"}) : new[k] = old[k]
              /\ new.updatedAt = timestamp
              /\ new.updatedAt >= old.updatedAt
              /\ SameBag(after, [before EXCEPT ![i] = new])

\* C3: for an existing id, updateTransaction(id, partial) and updateCategory(id,
\* partial) return an entity, and the stored record keeps id, createdAt and
\* every field the partial does not name, takes the named values, and has
\* updatedAt at the time of the update; every other record is unchanged.
C3_UpdateInPlace ==
    /\ (last.op = "updateTransaction" /\ DefinedUpdates(last.arg.updates)) =>
          \A t \in Targets :
              last.arg.id \in Range(Ids(TransactionsBefore[t])) =>
                  UpdatedInPlace(TransactionsBefore[t], getTransactions[t], last[t],
                                 last.arg.id, last.arg.updates, last.pre.now)
    /\ (last.op = "updateCategory" /\ DefinedUpdates(last.arg.updates)) =>
          \A t \in Targets :
              last.arg.id \in Range(Ids(CategoriesBefore[t])) =>
                  UpdatedInPlace(CategoriesBefore[t], getCategories[t], last[t],
                                 last.arg.id, last.arg.updates, last.pre.now)

\* An {amount} update, later than the creation, of one of two transactions.
C3_Witness ==
    /\ last.op = "updateTransaction"
    /\ last.arg.updates = [amount |-> 1500]
    /\ \A t \in Targets :
        /\ last[t].kind = "entity"
        /\ Len(getTransactions[t]) >= 2
        /\ last[t].val.updatedAt > last[t].val.createdAt
        /\ last[t].val.memo # None

\* C4: deleteTransaction / deleteCategory of an id that is not stored returns
\* false and leaves the collection as it was; of an id that is stored it returns
\* true, the collection is one shorter, the id is gone and every other record is
\* unchanged.
C4_DeleteOne ==
    last.op \in {"deleteTransaction", "deleteCategory"} =>
        \A t \in Targets :
            LET before == IF last.op = "deleteTransaction"
                          THEN TransactionsBefore[t] ELSE CategoriesBefore[t]
                after == IF last.op = "deleteTransaction"
                         THEN getTransactions[t] ELSE getCategories[t]
                keep(x) == x.id # last.arg
            IN IF last.arg \notin Range(Ids(before))
               THEN SameRet(last[t], Ret("bool", FALSE)) /\ after = before
               ELSE /\ SameRet(last[t], Ret("bool", TRUE))
                    /\ Len(after) = Len(before) - 1
                    /\ last.arg \notin Range(Ids(after))
                    /\ after = SelectSeq(before, keep)

\* C5: getTransactions is in non-increasing order of date and getCategories in
\* non-decreasing order of `order`, on both backends.
C5_ListsSorted ==
    \A t \in Targets : IsDateDesc(getTransactions[t]) /\ IsOrderAsc(getCategories[t])

\* Both stores hold their records in another order than the lists have.
C5_Witness ==
    /\ Len(getTransactions.web) >= 2
    /\ webAS.TRANSACTIONS.val # getTransactions.web
    /\ Ids(db.transactions) # Ids(getTransactions.native)
    /\ Ids(db.categories) # Ids(getCategories.native)
    /\ getTransactions.web[1].date > getTransactions.web[2].date

\* The legacy key-value store of the native target was empty at the start.
EmptyStart ==
    ~nativeAS.TRANSACTIONS.has /\ ~nativeAS.CATEGORIES.has /\ ~nativeAS.THEME_MODE.has

\* C6: from an empty store and without imports, every facade call returns the
\* same on the key-value and on the relational backend, and getTransactions,
\* getCategories and getThemeMode give the same contents on both afterwards.
C6_BackendsAgree ==
    (EmptyStart /\ ~last.imported) =>
        /\ SameRet(last.web, last.native)
        /\ SameBag(getTransactions.web, getTransactions.native)
        /\ SameBag(getCategories.web, getCategories.native)
        /\ getThemeMode.web = getThemeMode.native

UniqueIds(list) == \A i, j \in 1..Len(list) : list[i].id = list[j].id => i = j

\* C7: in every reachable state no two transactions share an id and no two
\* categories share an id, on either backend.
C7_UniqueIds ==
    \A t \in Targets : UniqueIds(getTransactions[t]) /\ UniqueIds(getCategories[t])

\* A picked document that is not JSON, has not the shape, or is of a newer version.
InvalidDocument(document) ==
    /\ document.picked = "file"
    /\ \/ ~document.parses
       \/ ~document.versionIsNumber
       \/ ~document.transactionsIsArray
       \/ ~document.categoriesIsArray
       \/ document.version > 1

\* C8: importData of an invalid document returns {success: false, error} on both
\* backends, does not throw, and leaves every store as it was before the call.
C8_InvalidImportRejected ==
    (last.op = "importData" /\ InvalidDocument(last.arg)) =>
        /\ \A t \in Targets :
            /\ last[t].kind = "result"
            /\ ~last[t].val.success
            /\ last[t].val.error # None
        /\ webAS = last.pre.webAS
        /\ db = last.pre.db
        /\ nativeAS = last.pre.nativeAS

\* A document of a newer version is imported over stores that hold data and a theme.
C8_Witness ==
    /\ last.op = "importData"
    /\ last.arg.picked = "file" /\ last.arg.parses /\ validateImportData(last.arg)
    /\ last.arg.version > 1
    /\ \A t \in Targets : Len(CategoriesBefore[t]) > 0 /\ ThemeModeBefore[t] = "dark"

\* Entity e is the document's row x: every field but the timestamps is equal,
\* and a timestamp the row has is kept.
ImportedAs(x, e) ==
    /\ \A k \in DOMAIN x \ {"createdAt", "updatedAt"} : e[k] = x[k]
    /\ x.createdAt # NoTimestamp => e.createdAt = x.createdAt
    /\ x.updatedAt # NoTimestamp => e.updatedAt = x.updatedAt

\* The list is the rows of the document, each as often as the document has it.
ImportedRows(rows, list) ==
    /\ Len(list) = Len(rows)
    /\ \A i \in 1..Len(rows) :
          Cardinality({j \in 1..Len(list) : ImportedAs(rows[i], list[j])})
              = Cardinality({j \in 1..Len(rows) : rows[j] = rows[i]})

\* C9: when importData returns success on a backend, that backend's transactions
\* and categories are the rows of the document and nothing else, with their ids
\* and the timestamps they have, the theme is the document's if it has one, and
\* the stats are the lengths of the document's two arrays.
C9_ImportReplaces ==
    last.op = "importData" =>
        \A t \in Targets :
            (last[t].kind = "result" /\ last[t].val.success) =>
                /\ ImportedRows(last.arg.transactions, getTransactions[t])
                /\ ImportedRows(last.arg.categories, getCategories[t])
                /\ last.arg.themeMode # None => getThemeMode[t] = last.arg.themeMode
                /\ last[t].val.stats.transactions = Len(last.arg.transactions)
                /\ last[t].val.stats.categories = Len(last.arg.categories)

\* The import succeeds on both backends, over stores that held other records,
\* with a row that has its timestamps and a row that has none.
C9_Witness ==
    /\ last.op = "importData"
    /\ \A t \in Targets :
        /\ last[t].kind = "result" /\ last[t].val.success
        /\ Len(TransactionsBefore[t]) > 0
        /\ Len(getTransactions[t]) = 2
        /\ getThemeMode[t] = "pink"
    /\ \E i, j \in 1..Len(last.arg.transactions) :
        /\ last.arg.transactions[i].createdAt # NoTimestamp
        /\ last.arg.transactions[j].createdAt = NoTimestamp

\* C10: getThemeMode returns one of system, light, dark, pink, blue; "system"
\* after clearAllData; the mode of a saveThemeMode right after it.
C10_ThemeModeInEnumeration ==
    \A t \in Targets :
        /\ getThemeMode[t] \in ThemeModes
        /\ last.op = "clearAllData" => getThemeMode[t] = "system"
        /\ last.op = "saveThemeMode" => getThemeMode[t] = last.arg

\* C11: a deleteCategory of a default category is refused (it returns false)
\* and the category is still returned by getCategories afterwards.
C11_DefaultNotDeleted ==
    last.op = "deleteCategory" =>
        \A t \in Targets :
            \A i \in 1..Len(CategoriesBefore[t]) :
                LET c == CategoriesBefore[t][i]
                IN (c.id = last.arg /\ c.isDefault) =>
                      /\ SameRet(last[t], Ret("bool", FALSE))
                      /\ c.id \in Range(Ids(getCategories[t]))

\* C12: after initializeStorage, whatever the category screens let the user
\* delete, getCategories holds a category of type expense and one of type income.
C12_EachTypeRemains ==
    \A t \in Targets :
        \A type \in {"expense", "income"} :
            \E i \in 1..Len(getCategories[t]) : getCategories[t][i].type = type

\* The migration ran to its end in the last call.
MigratedNow ==
    /\ last.op = "initializeStorage"
    /\ ~IsTrue(last.pre.nativeAS.MIGRATED)
    /\ IsTrue(nativeAS.MIGRATED)

\* The relational store after one more run of the migration, the flag cleared.
ForcedRerun == migrateFromAsyncStorage([nativeAS EXCEPT !.MIGRATED = NoFlag], db, NoFault).db

\* C13: with the migrated flag set, a run of the migration writes nothing to the
\* relational store; and right after a run that completed, a forced re-run with
\* the flag cleared leaves the tables with the same rows, one row per id.
C13_MigrationTwice ==
    /\ IsTrue(nativeAS.MIGRATED) =>
          \A fault \in MigrationFaultInputs :
              migrateFromAsyncStorage(nativeAS, db, fault).db = db
    /\ MigratedNow =>
          /\ SameBag(ForcedRerun.categories, db.categories)
          /\ SameBag(ForcedRerun.transactions, db.transactions)
          /\ ForcedRerun.settings = db.settings
          /\ UniqueIds(ForcedRerun.categories)
          /\ UniqueIds(ForcedRerun.transactions)

\* The run that completed moved categories, a transaction and the theme.
C13_Witness ==
    /\ MigratedNow
    /\ Len(nativeAS.CATEGORIES.val) >= 2
    /\ Len(nativeAS.TRANSACTIONS.val) >= 1
    /\ Len(db.categories) >= 2
    /\ Len(db.transactions) >= 1
    /\ getThemeModeNative(db) = "dark"

\* The sum of the amounts of the transactions at the indices S.
RECURSIVE SumOver(_, _)
SumOver(list, S) ==
    IF S = {} THEN 0
    ELSE LET i == CHOOSE i \in S : TRUE
         IN list[i].amount + SumOver(list, S \ {i})

\* The sum of the amounts of the transactions of a type dated in one of the months.
SumIn(list, type, dates) ==
    SumOver(list, {i \in 1..Len(list) : list[i].type = type /\ list[i].date \in dates})

\* income - expense over a whole list.
BalanceOf(list) ==
    LET all == {list[i].date : i \in 1..Len(list)}
    IN SumIn(list, "income", all) - SumIn(list, "expense", all)

\* The result is the summary of the transactions dated in `dates`, against the
\* optional previous list.
IsSummary(r, previousBalance, changePercentage, list, dates, previous) ==
    /\ r.income = SumIn(list, "income", dates)
    /\ r.expense = SumIn(list, "expense", dates)
    /\ r.balance = r.income - r.expense
    /\ previousBalance.defined <=> previous.given
    /\ previousBalance.defined => previousBalance.value = BalanceOf(previous.list)
    /\ changePercentage.defined <=> (previous.given /\ BalanceOf(previous.list) # 0)
    /\ changePercentage.defined =>
          /\ changePercentage.value.den > 0
          /\ changePercentage.value.num * Abs(BalanceOf(previous.list))
                = (r.balance - BalanceOf(previous.list)) * 100 * changePercentage.value.den

\* C14: calculateMonthlySummary returns the income, expense and balance of the
\* month, the balance of the previous list if one is given, and the change in
\* percent of |previous balance|, undefined exactly when no previous list is
\* given or its balance is 0; calculateYearlySummary does the same for a year.
C14_Summaries ==
    /\ calc.op = "calculateMonthlySummary" =>
          /\ calc.ret.year = calc.arg.year /\ calc.ret.month = calc.arg.month
          /\ IsSummary(calc.ret, calc.ret.previousMonthBalance, calc.ret.changePercentage,
                       calc.arg.transactions, {DateOf(calc.arg.year, calc.arg.month)},
                       calc.arg.previous)
    /\ calc.op = "calculateYearlySummary" =>
          /\ calc.ret.year = calc.arg.year
          /\ IsSummary(calc.ret, calc.ret.previousYearBalance, calc.ret.changePercentage,
                       calc.arg.transactions, {DateOf(calc.arg.year, m) : m \in 1..12},
                       calc.arg.previous)

\* A month with income and expenses, a transaction of another month in the
\* list, and a previous list whose balance is negative.
C14_Witness ==
    /\ calc.op = "calculateMonthlySummary"
    /\ calc.ret.income > 0 /\ calc.ret.expense > 0
    /\ \E i \in 1..Len(calc.arg.transactions) :
          calc.arg.transactions[i].date # DateOf(calc.arg.year, calc.arg.month)
    /\ calc.arg.previous.given
    /\ calc.ret.previousMonthBalance.value < 0
    /\ calc.ret.changePercentage.defined

\* The indices of the transactions of a type.
OfType(list, type) == {i \in 1..Len(list) : list[i].type = type}

\* The category ids that a transaction of the type refers to and categories holds.
BrokenDown(list, categories, type) ==
    {list[i].categoryId : i \in OfType(list, type)} \cap Range(Ids(categories))

\* C15: calculateCategoryData (and calculateCategoryExpenses for expenses)
\* returns the empty list when the total of the type is 0; otherwise one entry
\* per category id that a transaction of the type refers to and that categories
\* holds, with the sum of that category as amount and amount / total * 100 as
\* percentage (the total counts every transaction of the type), sorted by
\* amount, largest first; no entry stands for a missing or dangling categoryId.
C15_CategoryBreakdown ==
    calc.op \in {"calculateCategoryData", "calculateCategoryExpenses"} =>
        LET list == calc.arg.transactions
            type == calc.arg.type
            total == SumOver(list, OfType(list, type))
            ids == BrokenDown(list, calc.arg.categories, type)
            r == calc.ret
        IN IF total = 0 THEN r = <<>>
           ELSE /\ Len(r) = Cardinality(ids)
                /\ {r[k].categoryId : k \in 1..Len(r)} = ids
                /\ \A k \in 1..Len(r) :
                      /\ r[k].amount = SumOver(list, {i \in OfType(list, type) :
                                                         list[i].categoryId = r[k].categoryId})
                      /\ SameNumber(r[k].percentage, [num |-> r[k].amount * 100, den |-> total])
                      /\ r[k].categoryId # None
                /\ \A k \in 1..(Len(r) - 1) : r[k].amount >= r[k + 1].amount

\* Two categories come out in the other order than they came in, and a
\* transaction of the type counted in the total stands in no entry.
C15_Witness ==
    /\ calc.op = "calculateCategoryData"
    /\ Len(calc.ret) = 2
    /\ calc.ret[1].amount > calc.ret[2].amount
    /\ calc.arg.transactions[1].type = calc.arg.type
    /\ calc.arg.transactions[1].categoryId = calc.ret[2].categoryId
    /\ \E i \in OfType(calc.arg.transactions, calc.arg.type) :
          /\ calc.arg.transactions[i].amount > 0
          /\ \A k \in 1..Len(calc.ret) :
                calc.ret[k].categoryId # calc.arg.transactions[i].categoryId

\* C16: calculateMonthlyData returns 12 entries, for the months 1..12 in this
\* order, each with the income and the expense of that month of the year and
\* their difference as balance, whatever the list holds.
C16_TwelveMonths ==
    calc.op = "calculateMonthlyData" =>
        /\ Len(calc.ret) = 12
        /\ \A m \in 1..12 :
              /\ calc.ret[m].month = m
              /\ calc.ret[m].income
                    = SumIn(calc.arg.transactions, "income", {DateOf(calc.arg.year, m)})
              /\ calc.ret[m].expense
                    = SumIn(calc.arg.transactions, "expense", {DateOf(calc.arg.year, m)})
              /\ calc.ret[m].balance = calc.ret[m].income - calc.ret[m].expense

\* One month of the year has data, and the list holds a transaction of the
\* same month of another year.
C16_Witness ==
    /\ calc.op = "calculateMonthlyData"
    /\ Cardinality({m \in 1..12 : calc.ret[m].income # 0 \/ calc.ret[m].expense # 0}) = 1
    /\ \E i \in 1..Len(calc.arg.transactions) :
          /\ dayjsYear(calc.arg.transactions[i].date) # calc.arg.year
          /\ calc.arg.transactions[i].amount > 0
          /\ calc.ret[dayjsMonth(calc.arg.transactions[i].date) + 1].expense > 0

\* C17: formatPercentage writes the percentage with one digit after the point
\* and a % after it, with a + in front whenever the percentage is >= 0 (0
\* included) and nothing added in front when it is negative.
C17_PlusFromZero ==
    calc.op = "formatPercentage" =>
        calc.ret = (IF calc.arg.num >= 0 THEN "+" ELSE "") \o toFixed1(calc.arg) \o "%"

\* The categories of the legacy AsyncStorage that the categories table lacks.
Unmigrated ==
    IF nativeAS.CATEGORIES.has /\ nativeAS.CATEGORIES.ok
    THEN {c \in Range(nativeAS.CATEGORIES.val) : c.id \notin Range(Ids(getCategories.native))}
    ELSE {}

\* C18: on the native target initializeStorage looks whether to seed the
\* default categories only after the migration has completed or has been
\* skipped as done before; so the defaults are never seeded while AsyncStorage
\* holds categories that have not been migrated.
C18_SeedAfterMigration ==
    (last.op = "initializeStorage" /\ last.arg.seeded) =>
        /\ last.arg.migrated
        /\ Unmigrated = {}

\* The last call was initializeStorage and its migration stopped at a failing step.
MigrationFailed == last.op = "initializeStorage" /\ ~last.arg.migrated

\* Every record of the legacy AsyncStorage, as the last call found it, is in SQLite.
AllTransferred ==
    LET as == last.pre.nativeAS
    IN /\ as.CATEGORIES.has => /\ as.CATEGORIES.ok
                               /\ Range(as.CATEGORIES.val) \subseteq Range(getCategories.native)
       /\ as.TRANSACTIONS.has => /\ as.TRANSACTIONS.ok
                                 /\ Range(as.TRANSACTIONS.val) \subseteq Range(getTransactions.native)
       /\ (as.THEME_MODE.has /\ as.THEME_MODE.val # "") =>
             getThemeModeNative(db) = as.THEME_MODE.val

\* C19: when a step of the migration fails (reading AsyncStorage, parsing, an
\* upsert, writing the flag), the migrated flag is not set, initializeStorage
\* does not throw, and the next initializeStorage runs the migration again
\* (a flag set by an earlier run stays as it is);
\* the flag is set only after categories, transactions and theme are all
\* transferred.
C19_MigrationFailure ==
    /\ MigrationFailed =>
          /\ nativeAS.MIGRATED = last.pre.nativeAS.MIGRATED
          /\ last.native.kind # "throw"
          /\ (~IsTrue(nativeAS.MIGRATED) /\ nativeAS.CATEGORIES.ok /\ nativeAS.TRANSACTIONS.ok) =>
                LET again == migrateFromAsyncStorage(nativeAS, db, NoFault)
                IN /\ again.done
                   /\ IsTrue(again.as.MIGRATED)
                   /\ Range(Ids(nativeAS.CATEGORIES.val)) \subseteq Range(Ids(again.db.categories))
    /\ MigratedNow => AllTransferred

\* The second upsert of a category threw: one category of two is in the
\* table, the flag is not set and initializeStorage returned.
C19_Witness ==
    /\ MigrationFailed
    /\ last.arg.fault = <<"upsertCategory", 2>>
    /\ Len(nativeAS.CATEGORIES.val) = 2
    /\ Len(db.categories) = 1
    /\ ~IsTrue(nativeAS.MIGRATED)
    /\ last.native.kind = "void"

\* The database has been opened at most once.
OpenedOnce == sqlite.opened <= 1

\* initializeSchema has been called at most once.
SchemaOnce == sqlite.schemaRuns <= 1

\* The callers that have returned hold one and the same connection.
SameConnection ==
    \A c1 \in Callers, c2 \in Callers :
        (callers[c1].pc = "returned" /\ callers[c2].pc = "returned") =>
            callers[c1].got = callers[c2].got

\* C20: however concurrent getDatabase calls interleave (no closeDatabase
\* among them), the database is opened once and the schema is initialized
\* once, and every caller gets the same connection.
C20_OneConnection == OpenedOnce /\ SchemaOnce /\ SameConnection

\* C26: every caller that getDatabase has returned a connection to received
\* it when the tables existed: initializeSchema had completed by then, it was
\* not still running and had not rejected.
C26_SchemaBeforeConnection ==
    \A c \in Callers : callers[c].pc = "returned" => callers[c].ready

\* The orders that the pairs give for an id.
OrdersGiven(pairs, id) == {pairs[j].order : j \in {k \in 1..Len(pairs) : pairs[k].id = id}}

\* c as updateCategoryOrders leaves it: with one of the orders given for its id
\* and the time of the call as updatedAt.
Reordered(c, pairs, timestamp) ==
    {[c EXCEPT !.order = o, !.updatedAt = timestamp] : o \in OrdersGiven(pairs, c.id)}

\* C24: updateCategoryOrders(pairs) sets order to the given value and updatedAt
\* to the time of the call on the categories whose id is in pairs, and on no
\* other: a category whose id is not in pairs keeps every field, a pair of an
\* unknown id changes nothing, no category is added or removed, and only order
\* and updatedAt change.
C24_ReorderFrame ==
    last.op = "updateCategoryOrders" =>
        \A t \in Targets :
            LET before == CategoriesBefore[t]
                after == getCategories[t]
                named(c) == OrdersGiven(last.arg, c.id) # {}
            IN /\ Len(after) = Len(before)
               /\ \A c \in Range(before) :
                     IF named(c)
                     THEN Reordered(c, last.arg, last.pre.now) \cap Range(after) # {}
                     ELSE Count(after, c) = Count(before, c)
               /\ \A c \in Range(after) :
                     \E b \in Range(before) :
                         /\ b.id = c.id
                         /\ IF named(b) THEN c \in Reordered(b, last.arg, last.pre.now)
                            ELSE c = b

\* A reorder, later than the seeding, that moves a category to a new order and
\* leaves another category alone.
C24_Witness ==
    /\ last.op = "updateCategoryOrders"
    /\ \A t \in Targets :
          /\ \E b \in Range(CategoriesBefore[t]) :
                /\ OrdersGiven(last.arg, b.id) # {}
                /\ b.order \notin OrdersGiven(last.arg, b.id)
                /\ b.updatedAt < last.pre.now
          /\ \E b \in Range(CategoriesBefore[t]) : OrdersGiven(last.arg, b.id) = {}
    /\ \E j \in 1..Len(last.arg) : last.arg[j].id = UnknownCategoryId

\* With getItem rejecting, the reads of the key-value backend return [] and "system".
ReadsDefault ==
    /\ getTransactionsWeb(SeenBy(webAS, "TRANSACTIONS", ReadFault)) = <<>>
    /\ getCategoriesWeb(SeenBy(webAS, "CATEGORIES", ReadFault)) = <<>>
    /\ getThemeModeWebUnder(webAS, ReadFault) = "system"

\* The last call on the key-value backend had something to write, and its
\* first setItem / removeItem rejected.
FirstWriteFailed ==
    /\ last.op # "none"
    /\ last.arg.fault = WriteFault(1)
    /\ ~(last.web.kind = "null" \/ (last.web.kind = "bool" /\ last.web.val = FALSE))
    /\ last.op = "initializeStorage" => ~IsTrue(last.pre.webAS.INITIALIZED)

\* A write of the last call on the key-value backend rejected.
WriteFailed == last.op # "none" /\ last.web.kind = "throw" /\ last.arg.fault[1] = "setItem"

\* A failing first write makes the call throw.
WriteFailureThrows == FirstWriteFailed => last.web.kind = "throw"

\* A call that threw at a write leaves AsyncStorage as it was.
WriteFailureKeepsStore == WriteFailed => webAS = last.pre.webAS

\* C22: in the key-value backend a failing read makes getTransactions,
\* getCategories and getThemeMode return [] / "system" without throwing; a
\* failing write makes every write operation throw, and the stored data are
\* left as they were before the call.
C22_WebFailures == ReadsDefault /\ WriteFailureThrows /\ WriteFailureKeepsStore

WriteOperations ==
    {"saveTransaction", "updateTransaction", "deleteTransaction", "saveCategory",
     "updateCategory", "deleteCategory", "updateCategoryOrders", "clearAllData",
     "saveThemeMode"}

\* C23: when no connection is obtained, every write operation of the
\* relational backend throws "Database not available", and getTransactions,
\* getCategories and getThemeMode return [] / "system".
C23_NoDatabase ==
    /\ (last.op \in WriteOperations /\ ~last.arg.available) =>
          SameRet(last.native, Throw("Database not available"))
    /\ NoDatabase("getTransactions").val = <<>>
    /\ NoDatabase("getCategories").val = <<>>
    /\ NoDatabase("getThemeMode").val = "system"

\* C25: a saveTransaction or saveCategory that returns an entity loses no
\* record: every record stored before the call is stored after it, also when
\* the read half of the call on the key-value backend fails.
C25_SaveKeepsRecords ==
    /\ last.op = "saveTransaction" =>
          \A t \in Targets :
              last[t].kind = "entity" =>
                  Range(TransactionsBefore[t]) \subseteq Range(getTransactions[t])
    /\ last.op = "saveCategory" =>
          \A t \in Targets :
              last[t].kind = "entity" =>
                  Range(CategoriesBefore[t]) \subseteq Range(getCategories[t])

\* C28: an importData that returns success: false, for whatever reason, leaves
\* the stored transactions and categories as they were before the call.
C28_FailedImportKeepsData ==
    last.op = "importData" =>
        \A t \in Targets :
            ~last[t].val.success =>
                /\ getTransactions[t] = TransactionsBefore[t]
                /\ getCategories[t] = CategoriesBefore[t]

\* No transaction deleted on the native target is returned again.
DeletedStaysDeleted == last.deleted \cap Range(Ids(getTransactions.native)) = {}

\* initializeStorage leaves every edited transaction (updatedAt is not
\* createdAt) of the native target as it was.
InitializeKeepsEdits ==
    last.op = "initializeStorage" =>
        \A x \in Range(TransactionsBefore.native) :
            x.updatedAt # x.createdAt => x \in Range(getTransactions.native)

\* C29: on the native target a transaction whose deleteTransaction returned
\* true is not returned by a later getTransactions unless an import brought it
\* back, and an edit made by updateTransaction is not undone by a later
\* initializeStorage, whether or not an earlier migration failed.
C29_NoResurrection == DeletedStaysDeleted /\ InitializeKeepsEdits

\* C30: initializeStorage removes or changes no stored transaction: every
\* transaction saved before it is returned by getTransactions after it.
C30_InitializeKeepsTransactions ==
    last.op = "initializeStorage" =>
        \A t \in Targets : Range(TransactionsBefore[t]) \subseteq Range(getTransactions[t])

-----------------------------------------------------------------------------
(* Overlapping calls *)

Returned(op) == {t \in Tasks : tasks[t].op = op /\ tasks[t].pc = "returned"}

\* The calls that have written the TRANSACTIONS item.
Writers == {t \in Tasks : tasks[t].wroteAt > 0}

LastWriter(t) == t \in Writers /\ \A u \in Writers : tasks[u].wroteAt <= tasks[t].wroteAt

\* l read the TRANSACTIONS item as a's setItem left it.
ReadAfter(a, l) ==
    /\ tasks[a].wroteAt < tasks[l].readAt
    /\ \A w \in Writers : ~(tasks[a].wroteAt < tasks[w].wroteAt /\ tasks[w].wroteAt < tasks[l].readAt)

StoredTransactionIds ==
    {getTransactionsWeb(webAS)[i].id : i \in 1..Len(getTransactionsWeb(webAS))}

\* C21: on the web target every saveTransaction call returns its new transaction,
\* the last call to write always has its transaction stored, a call whose write
\* fell between the read and the write of the last saveTransaction to write has
\* lost its transaction, and a call that the last one to write read after has not.
C21_LastWriteWins ==
    \A a \in Returned("saveTransaction") :
        /\ tasks[a].ret.kind = "entity"
        /\ tasks[a].ret.val.id = tasks[a].id
        /\ LastWriter(a) => tasks[a].id \in StoredTransactionIds
        /\ \A l \in Returned("saveTransaction") \ {a} :
              LastWriter(l) =>
                 /\ tasks[l].readAt < tasks[a].wroteAt => tasks[a].id \notin StoredTransactionIds
                 /\ ReadAfter(a, l) => tasks[a].id \in StoredTransactionIds

\* Two saveTransaction calls overlapped, both returned their transaction, one is stored.
C21_Witness ==
    \E a \in Returned("saveTransaction"), l \in Returned("saveTransaction") :
        /\ a # l
        /\ Writers = {a, l}
        /\ tasks[a].ret.kind = "entity"
        /\ tasks[l].ret.kind = "entity"
        /\ tasks[l].readAt < tasks[a].wroteAt
        /\ tasks[a].wroteAt < tasks[l].wroteAt
        /\ StoredTransactionIds = {tasks[l].id}

\* No call is between two of its awaits.
Quiet == \A t \in Tasks : tasks[t].pc \in {"idle", "returned"}

\* categories holds the eleven defaults, each once.
ExactlyDefaults(categories) ==
    /\ Len(categories) = Len(DEFAULT_CATEGORIES)
    /\ \A d \in 1..Len(DEFAULT_CATEGORIES) :
          Cardinality({i \in 1..Len(categories) :
                          /\ categories[i].name = DEFAULT_CATEGORIES[d].name
                          /\ categories[i].type = DEFAULT_CATEGORIES[d].type}) = 1
    /\ Cardinality({i \in 1..Len(categories) : categories[i].type = "expense"}) = 7
    /\ Cardinality({i \in 1..Len(categories) : categories[i].type = "income"}) = 4

\* C27: from empty stores, once initializeStorage calls have returned, overlapping
\* or not, a target holds exactly the 11 default categories, 7 expense and 4 income.
C27_ExactlyDefaults ==
    Quiet =>
       /\ Returned("initializeStorageWeb") # {} => ExactlyDefaults(getCategoriesWeb(webAS))
       /\ Returned("initializeStorageNative") # {} => ExactlyDefaults(getCategoriesNative(db))


====
